---- MODULE Spec2Model ----
(***************************************************************************)
(* A state-machine model of the physics layer of varglas                   *)
(* (src/src/physics.py): the momentum balances VelocityStokes and          *)
(* VelocityBP, the adjoint AdjointVelocity and the enthalpy solvers        *)
(* Enthalpy and EnthalpyDG, as they act on the shared model object.        *)
(*                                                                         *)
(* Conventions.                                                            *)
(*  - A velocity-like field of the shared model (U, u, v, w, P, beta) is   *)
(*    held as the identifier of the Newton solution it was computed from:  *)
(*    ZeroField for a freshly allocated Function, k in 1..MaxVal for the   *)
(*    k-th distinguishable result the nonlinear solver can return.         *)
(*  - The finite-element solver primitive solve(...) is external; its      *)
(*    result (converged / failed, and the solution it leaves in the        *)
(*    unknown) is an input of the action that calls it.                    *)
(*  - Each constructor or solve() call is one action; the statements it    *)
(*    executed are recorded, in order, in call.steps, and how it ended in  *)
(*    call.outcome ("ok" or the exception that left the call).             *)
(***************************************************************************)
EXTENDS Integers, Sequences, FiniteSets, TLC

(* ------------------------------ bounds -------------------------------- *)

\* number of distinguishable non-zero solutions the nonlinear solver returns
MaxVal == 2

\* number of boundary facets of the mesh
NFacets == 3

\* a freshly allocated dolfin Function holds zeros
ZeroField == 0

Vals == ZeroField..MaxVal

(* --------------------------- configuration ---------------------------- *)

\* physics.py:273-312 and 639-694: the strings the if/elif chain tests
ViscosityModes ==
  {"isothermal", "linear", "b_control", "constant_b", "full", "E_control"}

\* physics.py:398-413 and 848-864: the strings the boundary tests compare to
BoundaryModes == {"homogeneous", "solution", "user_defined"}

\* a string no branch of the source compares to
Unrecognized == "bogus"

ModeInputs == ViscosityModes \cup {Unrecognized}

BoundaryInputs == BoundaryModes \cup {Unrecognized}

VARIABLES
  config,    \* the configuration mapping the driver passes to the momentum balance
  model,     \* named fields of the shared model object touched by the momentum balance
  vel,       \* the momentum-balance object the driver holds (NoObject: none)
  call,      \* record of the last constructor / solve() call
  SlBound    \* whether the global name Sl is bound in physics.py's namespace

velVars == <<config, model, vel, call, SlBound>>

VARIABLES
  aconfig,   \* the configuration keys AdjointVelocity reads
  adj,       \* the AdjointVelocity object the driver holds (NoAdjoint: none)
  acall,     \* record of the last AdjointVelocity constructor / solve() call
  Lam        \* model.Lam, the Lagrange-multiplier field

adjVars == <<aconfig, adj, acall, Lam>>

VARIABLES
  econfig,   \* whether model.mask exists, and config['enthalpy']['lateral_boundaries']
  thermo,    \* nodal values of the model's thermal fields H, T0, T, W, W0, W_r
  enth,      \* the enthalpy object the driver holds ("none", "Enthalpy", "EnthalpyDG")
  ecall      \* record of the last enthalpy constructor / solve() call

enthVars == <<econfig, thermo, enth, ecall>>

VARIABLES
  ff,        \* model.ff, the facet function: the marker of every boundary facet
  bedint     \* the bed integrals of the last form assembled on the mesh

meshVars == <<ff, bedint>>

VARIABLES
  fsconfig,  \* the config['free_surface'] keys FreeSurface.solve reads
  surf,      \* the model's surface fields: slope of S, smb, dSdt, the hat copies
  fs,        \* the FreeSurface object the driver holds ("none": none)
  fscall     \* record of the last FreeSurface constructor / solve() call

surfVars == <<fsconfig, surf, fs, fscall>>

VARIABLES
  dat,       \* the DataInput object the driver holds (NoData: none)
  dcall      \* record of the last DataInput constructor / method call

dataVars == <<dat, dcall>>

vars == <<velVars, adjVars, enthVars, meshVars, surfVars, dataVars>>

\* the configuration keys the momentum balance reads; pressure_bc stands for
\* (not config['periodic_boundary_conditions'] and config['use_pressure_boundary'])
VelConfigs ==
  [viscosity_mode : ModeInputs, boundaries : BoundaryInputs,
   init_beta_from_stats : BOOLEAN, pressure_bc : BOOLEAN]

NoConfig ==
  [viscosity_mode |-> "none", boundaries |-> "none",
   init_beta_from_stats |-> FALSE, pressure_bc |-> FALSE]

NoBC == [sub |-> 0, value |-> "None", marker |-> 0]

\* what a rheology closure read: the water-content field that enters the
\* hardness ("none" when the mode has no water term) and the exponent n of
\* the viscosity and the viscous dissipation
NoClosure == [water |-> "none", n |-> 0]

\* self.beta_f of an object built without init_beta_from_stats: no polynomial
NoPolynomial == [covariates |-> <<>>, terms |-> <<>>, ncoef |-> 0, nused |-> 0]

NoObject ==
  [class |-> "none", cfg |-> NoConfig, b_shf |-> "none", b_gnd |-> "none",
   bcs |-> <<>>, bc_w |-> NoBC, lateral |-> [kind |-> "none", at |-> ZeroField],
   forms |-> FALSE, closure |-> NoClosure, beta_f |-> NoPolynomial]

\* a call record: the operation, how it ended (outcome: "ok" or the exception
\* that left it; raised_by: the statement that raised), the statements it
\* executed, what it printed, and the boundary conditions handed to the solver
NoCall ==
  [op |-> "none", outcome |-> "ok", raised_by |-> "none", steps |-> <<>>,
   printed |-> {}, bcs |-> <<>>, bc_w |-> NoBC, cfg |-> NoConfig,
   closure |-> NoClosure]

(* ------------------------- boundary conditions ------------------------ *)

\* DirichletBC(space.sub(i), value, model.ff, marker)
DirichletBC(sub, value, marker) ==
  [sub |-> sub, value |-> value, marker |-> marker]

\* VelocityStokes.solve, physics.py:396-413: self.bcs = [] followed by three
\* independent if statements (no else branch)
StokesBCs(boundaries) ==
  LET b0 == <<>>
      b1 == IF boundaries = "homogeneous"
            THEN b0 \o << DirichletBC(0, "0.0", 4), DirichletBC(1, "0.0", 4),
                          DirichletBC(2, "0.0", 4) >>
            ELSE b0
      b2 == IF boundaries = "solution"
            THEN b1 \o << DirichletBC(0, "model.u", 4), DirichletBC(1, "model.v", 4),
                          DirichletBC(2, "model.w", 4) >>
            ELSE b1
      b3 == IF boundaries = "user_defined"
            THEN b2 \o << DirichletBC(0, "u_lat_boundary", 4),
                          DirichletBC(1, "v_lat_boundary", 4),
                          DirichletBC(2, "0.0", 4) >>
            ELSE b2
  IN  b3

\* VelocityBP.__init__, physics.py:843-864: self.bcs = [] and the
\* if / elif / elif chain (no else branch)
BPBCs(boundaries) ==
  IF boundaries = "solution"
  THEN << DirichletBC(0, "model.u", 4), DirichletBC(1, "model.v", 4) >>
  ELSE IF boundaries = "homogeneous"
  THEN << DirichletBC(0, "0.0", 4), DirichletBC(1, "0.0", 4) >>
  ELSE IF boundaries = "user_defined"
  THEN << DirichletBC(0, "u_lat_boundary", 4), DirichletBC(1, "v_lat_boundary", 4) >>
  ELSE <<>>

\* VelocityBP.__init__, physics.py:845-864: self.bc_w = None, then per branch
BPBCw(boundaries) ==
  IF boundaries = "solution" THEN DirichletBC(0, "model.w", 4)
  ELSE IF boundaries = "homogeneous" THEN DirichletBC(0, "0.0", 4)
  ELSE IF boundaries = "user_defined" THEN DirichletBC(0, "w_lat_boundary", 4)
  ELSE NoBC

(* ------------------------------ rheology ------------------------------ *)

\* The hardness pair <<b_shf, b_gnd>> after the viscosity_mode chain of
\* VelocityBP.__init__ (physics.py:639-698).  A hardness is held as the name
\* of the branch that produced it; the else branch only prints, so the
\* locals keep the values read from the model at lines 562-563.
BPHardness(mode, m) ==
  IF mode \in ViscosityModes THEN <<mode, mode>> ELSE <<m.b_shf, m.b_gnd>>

\* the modes whose hardness is b = (E a(T) (1 + 181.25 W) exp(-Q/(R T)))^(-1/n)
\* (physics.py:295-312 and 673-694)
TemperatureModes == {"full", "E_control"}

\* the exponent the chain leaves in the local n: model.n (physics.py:171,
\* 561) unless the linear branch set n = 1.0 (282, 655)
ClosureExponent(mode, m) == IF mode = "linear" THEN 1 ELSE m.n

\* VelocityBP.__init__: W = model.W_r (physics.py:576)
BPClosure(mode, m) ==
  [water |-> IF mode \in TemperatureModes THEN "W_r" ELSE "none",
   n |-> ClosureExponent(mode, m)]

\* VelocityStokes.__init__: W = model.W (physics.py:184)
StokesClosure(mode, m) ==
  [water |-> IF mode \in TemperatureModes THEN "W" ELSE "none",
   n |-> ClosureExponent(mode, m)]

\* what the chain prints: the else branch prints the acceptable choices
BPModeMessage(mode) ==
  IF mode \in ViscosityModes THEN {} ELSE {"acceptable viscosity_mode choices"}

\* the same chain in VelocityStokes.__init__ (physics.py:273-316)
StokesHardness(mode, m) ==
  IF mode \in ViscosityModes THEN <<mode, mode>> ELSE <<m.b_shf, m.b_gnd>>

StokesModeMessage(mode) ==
  IF mode \in ViscosityModes THEN {} ELSE {"acceptable viscosity_mode choices"}

(* -------------------- statistical basal traction ---------------------- *)

\* the covariate list with the geothermal flux x13 in it
StatCovariatesWithFlux ==
  << "Mb", "S", "T", "T_s", "nS", "absB", "nB", "H", "lnU", "lnUbar",
     "q_geo", "adot" >>

\* X = [x0,x1,x2,x3,x4,x5,x6,x7,x11,x12,x14] (physics.py:738-751); x13 = q_geo
\* is assigned at line 748 and is not in the list
StatCovariates ==
  << "Mb", "S", "T", "T_s", "nS", "absB", "nB", "H", "lnU", "lnUbar", "adot" >>

\* the number of literals in bhat (physics.py:758-780)
NCoefficients == 67

RECURSIVE PairProducts(_, _, _)
\* for i,xx in enumerate(X): for yy in X[i+1:]: X_i.append(xx*yy)
\* (physics.py:782-784), from position <<i, j>> on
PairProducts(X, i, j) ==
  IF i > Len(X) THEN <<>>
  ELSE IF j > Len(X) THEN PairProducts(X, i + 1, i + 2)
  ELSE << <<X[i], X[j]>> >> \o PairProducts(X, i, j + 1)

\* X_i: X_i.extend(X) (physics.py:752-753) followed by the products
PolynomialTerms(X) == [i \in 1..Len(X) |-> <<X[i]>>] \o PairProducts(X, 1, 2)

\* zip(X_i, bhat[1:]) stops at the shorter of the two (physics.py:788)
ZipLength(a, b) == IF a < b THEN a ELSE b

\* beta_f = Constant(bhat[0]) + sum of Constant(bb)*xx (physics.py:786-789):
\* the covariates, the terms, the number of coefficients and the number of
\* term / coefficient pairs that enter the sum
StatPolynomial ==
  LET terms == PolynomialTerms(StatCovariates)
  IN  [covariates |-> StatCovariates, terms |-> terms, ncoef |-> NCoefficients,
       nused |-> ZipLength(Len(terms), NCoefficients - 1)]

(* ------------------------- energy functionals ------------------------- *)

\* config: not periodic_boundary_conditions and use_pressure_boundary
PressureTerm(pressure_bc) ==
  IF pressure_bc THEN {<<"Pb", "dSde">>} ELSE {}

\* VelocityBP.__init__, physics.py:822-826: the terms of A with their measures
BPFunctional(pressure_bc) ==
  { <<"Vd_shf", "dx_s">>, <<"Vd_gnd", "dx_g">>, <<"Pe", "dx">>,
    <<"Sl_gnd", "dGnd">>, <<"Sl_shf", "dFlt">> } \cup PressureTerm(pressure_bc)

\* VelocityStokes.__init__, physics.py:352-357
StokesFunctional(pressure_bc) ==
  { <<"Vd_shf", "dx_s">>, <<"Vd_gnd", "dx_g">>, <<"Pe", "dx">>, <<"Pc", "dx">>,
    <<"Lsq", "dx">>, <<"Sl", "dGnd">>, <<"Nc", "dBed">> } \cup PressureTerm(pressure_bc)

(* ----------------------- the shared model object ---------------------- *)

\* the nodal value of project(beta_f, Q), beta_f = exp(polynomial) - 100
\* (physics.py:783-787): a fixed function of the covariates, of which the
\* velocity is the one the solvers change; below zero at the zero field
\* (exp(bhat[0]) < 100), zero or above at the others
BetaExpr(U) == U - 1

\* beta_v[beta_v < 0.0] = 0.0 (physics.py:789 and 909)
ClampNegative(x) == IF x < 0 THEN 0 ELSE x

\* the statistical beta stored without the replacement of negative values
StatBetaUnclamped(m) == [from |-> "stats", at |-> m.U, val |-> BetaExpr(m.U)]

\* beta evaluated from the statistical polynomial beta_f, whose covariate
\* x11 = ln(|(u, v, w)| + 1) reads the components of model.U
\* (physics.py:736-796 and 905-911): the solution it was evaluated at and
\* the nodal value stored
StatBeta(m) ==
  [from |-> "stats", at |-> m.U, val |-> ClampNegative(BetaExpr(m.U))]

\* what the lateral conditions of the Newton solve pin the horizontal
\* velocity to: for 'solution' the values held by the Function object the
\* condition was built with (uval), otherwise data of the configuration
Lateral(boundaries, uval) ==
  IF boundaries = "solution" THEN [kind |-> "solution", at |-> uval]
  ELSE IF boundaries \in BoundaryModes THEN [kind |-> boundaries, at |-> ZeroField]
  ELSE [kind |-> "none", at |-> ZeroField]

\* the problem model.U is a converged solution of: the traction coefficient
\* in the functional and the lateral values; known is FALSE while U is a
\* fresh Function or the iterate of a failed solve
NoProblem ==
  [known |-> FALSE, coef |-> 0, lateral |-> [kind |-> "none", at |-> ZeroField]]

Problem(coef, lateral) == [known |-> TRUE, coef |-> coef, lateral |-> lateral]

\* the model object before any physics object is built.  rebound: the
\* field names that were bound to a new object since then, so that a
\* reference taken before no longer denotes the field of that name
InitModel ==
  [U |-> ZeroField, u |-> ZeroField, v |-> ZeroField, w |-> ZeroField,
   P |-> ZeroField,
   beta |-> [from |-> "model", at |-> ZeroField, val |-> 1],
   b_shf |-> "model", b_gnd |-> "model", A |-> {}, solved |-> NoProblem,
   rebound |-> {}, n |-> 3]

\* model.calc_pressure(): the hydrostatic pressure, a function of the
\* geometry alone; a value no Newton solution carries
HydrostaticP == MaxVal + 1

calc_pressure(m) == [m EXCEPT !.P = HydrostaticP]

(* ---------------------------- VelocityBP ------------------------------ *)

\* VelocityBP.__init__ (physics.py:545-879) on model m with configuration c:
\* the model it leaves, the object it returns and the record of the call
BPInit(m, c) ==
  LET b    == BPHardness(c.viscosity_mode, m)
      m1   == [m EXCEPT !.U = ZeroField, !.solved = NoProblem,  \* line 605
                        !.rebound = @ \cup {"U"}]
      m2   == IF c.init_beta_from_stats              \* lines 701-796 and 878
              THEN [m1 EXCEPT !.beta = StatBeta(m1),
                              !.rebound = @ \cup {"beta"}]
              ELSE m1
      m3   == [m2 EXCEPT !.b_shf = b[1], !.b_gnd = b[2],        \* lines 866-879
                         !.A = BPFunctional(c.pressure_bc)]
      obj  == [class |-> "BP", cfg |-> c, b_shf |-> b[1], b_gnd |-> b[2],
               bcs |-> BPBCs(c.boundaries), bc_w |-> BPBCw(c.boundaries),
               lateral |-> Lateral(c.boundaries, m.u),          \* lines 849-850
               forms |-> TRUE, closure |-> BPClosure(c.viscosity_mode, m),
               beta_f |-> IF c.init_beta_from_stats THEN StatPolynomial
                          ELSE NoPolynomial]                    \* line 796
      stps == <<"U", "viscosity">>
              \o (IF c.init_beta_from_stats THEN <<"beta_stats">> ELSE <<>>)
              \o <<"A", "F", "J", "w_form", "bcs", "store">>
  IN  [model |-> m3, vel |-> obj,
       call  |-> [op |-> "VelocityBP.__init__", outcome |-> "ok",
                  raised_by |-> "none", steps |-> stps,
                  printed |-> BPModeMessage(c.viscosity_mode),
                  bcs |-> <<>>, bc_w |-> NoBC, cfg |-> c,
                  closure |-> BPClosure(c.viscosity_mode, m)]]

\* solve(self.F == 0, model.U, J = self.J, bcs = self.bcs, ...), physics.py:891
\* and 418: Newton's method started from the values model.U holds.  When
\* U is a converged solution for the same coefficient and its lateral
\* values are the pinned ones (pinned), the first residual is within
\* tolerance and U is left as it is; otherwise the solver leaves Unew in U,
\* converged (newtonOk) or not.
NewtonSolve(m, prob, pinned, newtonOk, Unew) ==
  IF m.solved.known /\ m.solved.coef = prob.coef /\ pinned
  THEN [m EXCEPT !.solved = prob]
  ELSE [m EXCEPT !.U = Unew, !.solved = IF newtonOk THEN prob ELSE NoProblem]

\* solve(self.aw == self.Lw, model.w, ...), physics.py:836-841 and 901: the
\* right-hand side is built from u, v = model.U, so w is a function of the
\* solution U holds when the linear solve runs
WSolve(m) == [m EXCEPT !.w = m.U]

\* model.u, model.v = model.U.split(True), physics.py:893
BPSplit(m) ==
  [m EXCEPT !.u = m.U, !.v = m.U, !.rebound = @ \cup {"u", "v"}]

\* VelocityBP.solve with an internal retry: a failed Newton solve is run a
\* second time (with relaxed parameters) and the call then carries on
BPSolveRetrying(m, o, newtonOk, Unew, linOk) ==
  LET m1 == [m EXCEPT !.U = Unew]
      m5 == calc_pressure(WSolve(BPSplit(m1)))
      first == IF newtonOk THEN <<"newton">> ELSE <<"newton", "newton">>
  IN  [model |-> m5,
       call  |-> [op |-> "VelocityBP.solve", outcome |-> "ok", raised_by |-> "none",
                  steps |-> first \o <<"split", "wsolve", "pressure">>,
                  printed |-> {}, bcs |-> o.bcs, bc_w |-> o.bc_w, cfg |-> o.cfg,
                  closure |-> o.closure]]

\* VelocityBP.solve with the vertical-velocity solve placed before the
\* Newton solve, so that w is computed from the previous horizontal velocity
BPSolveWFirst(m, o, newtonOk, Unew, linOk) ==
  LET m1 == WSolve(m)
      m2 == BPSplit([m1 EXCEPT !.U = Unew])
      m3 == IF o.cfg.init_beta_from_stats
            THEN [m2 EXCEPT !.beta = StatBeta(m2)] ELSE m2
  IN  [model |-> calc_pressure(m3),
       call  |-> [op |-> "VelocityBP.solve", outcome |-> "ok", raised_by |-> "none",
                  steps |-> <<"wsolve", "newton", "split">>
                            \o (IF o.cfg.init_beta_from_stats
                                THEN <<"beta">> ELSE <<>>)
                            \o <<"pressure">>,
                  printed |-> {}, bcs |-> o.bcs, bc_w |-> o.bc_w, cfg |-> o.cfg,
                  closure |-> o.closure]]

\* VelocityBP.solve (physics.py:881-918) on object o.  newtonOk / linOk: whether
\* the nonlinear / linear solver primitive converges; Unew: the solution (or
\* the last iterate, when it fails) the Newton solver leaves in model.U.
BPSolve(m, o, newtonOk, Unew, linOk) ==
  LET prob == Problem(m.beta.val, o.lateral)
      m1 == NewtonSolve(m, prob, prob.lateral = m.solved.lateral,
                        newtonOk, Unew)                         \* line 891
      m2 == BPSplit(m1)                                         \* line 893
      m3 == WSolve(m2)                                          \* line 901
      m4 == IF o.cfg.init_beta_from_stats                       \* lines 905-912
            THEN [m3 EXCEPT !.beta = StatBeta(m3)] ELSE m3
      m5 == calc_pressure(m4)                                   \* line 917
      rec(out, by, stps) ==
        [op |-> "VelocityBP.solve", outcome |-> out, raised_by |-> by,
         steps |-> stps, printed |-> {}, bcs |-> o.bcs, bc_w |-> o.bc_w,
         cfg |-> o.cfg, closure |-> o.closure]
  IN  IF ~m1.solved.known
      THEN [model |-> m1, call |-> rec("RuntimeError", "newton", <<"newton">>)]
      ELSE IF ~linOk
      THEN [model |-> m2,
            call  |-> rec("RuntimeError", "wsolve", <<"newton", "split", "wsolve">>)]
      ELSE [model |-> m5,
            call  |-> rec("ok", "none", <<"newton", "split", "wsolve">>
                                \o (IF o.cfg.init_beta_from_stats
                                    THEN <<"beta">> ELSE <<>>)
                                \o <<"pressure">>)]

(* -------------------------- VelocityStokes ---------------------------- *)

\* VelocityStokes.__init__ (physics.py:155-385).  The sum at lines 353-354
\* reads the name Sl, which the constructor never binds (it binds Sl_gnd and
\* Sl_shf): unless the module namespace provides it (sl), evaluating the sum
\* raises NameError, after model.U was replaced at line 240.
StokesInit(m, old, c, sl) ==
  LET b    == StokesHardness(c.viscosity_mode, m)
      m1   == [m EXCEPT !.U = ZeroField, !.solved = NoProblem,  \* line 240
                        !.rebound = @ \cup {"U"}]
      m2   == [m1 EXCEPT !.A = StokesFunctional(c.pressure_bc), \* lines 359-377
                         !.b_shf = b[1], !.b_gnd = b[2],
                         !.u = m1.U, !.v = m1.U, !.w = m1.U, !.P = m1.U,
                         !.rebound = @ \cup {"u", "v", "w", "P"}]
      obj  == [class |-> "Stokes", cfg |-> c, b_shf |-> b[1], b_gnd |-> b[2],
               bcs |-> <<>>, bc_w |-> NoBC,
               lateral |-> [kind |-> "none", at |-> ZeroField], forms |-> TRUE,
               closure |-> StokesClosure(c.viscosity_mode, m),
               beta_f |-> NoPolynomial]
      rec(out, by, stps) ==
        [op |-> "VelocityStokes.__init__", outcome |-> out, raised_by |-> by,
         steps |-> stps, printed |-> StokesModeMessage(c.viscosity_mode),
         bcs |-> <<>>, bc_w |-> NoBC, cfg |-> c,
         closure |-> StokesClosure(c.viscosity_mode, m)]
  IN  IF ~sl
      THEN [model |-> m1, vel |-> old,
            call  |-> rec("NameError", "A", <<"U", "viscosity">>)]
      ELSE [model |-> m2, vel |-> obj,
            call  |-> rec("ok", "none", <<"U", "viscosity", "A", "store", "F", "J">>)]

\* model.u, model.v, model.w, model.P = model.U.split(True), physics.py:420
StokesSplit(m) ==
  [m EXCEPT !.u = m.U, !.v = m.U, !.w = m.U, !.P = m.U,
            !.rebound = @ \cup {"u", "v", "w", "P"}]

\* VelocityStokes.solve (physics.py:387-425) on object o
StokesSolve(m, o, newtonOk, Unew) ==
  LET bcs == StokesBCs(o.cfg.boundaries)                        \* lines 396-413
      lat == Lateral(o.cfg.boundaries, m.u)
      o1  == [o EXCEPT !.bcs = bcs, !.lateral = lat]
      m1  == NewtonSolve(m, Problem(m.beta.val, lat),
                         \/ lat = m.solved.lateral
                         \/ lat.kind = "solution" /\ m.u = m.U,
                         newtonOk, Unew)                        \* line 418
      m2  == StokesSplit(m1)                                    \* line 420
      rec(out, by, stps) ==
        [op |-> "VelocityStokes.solve", outcome |-> out, raised_by |-> by,
         steps |-> stps, printed |-> {}, bcs |-> bcs, bc_w |-> NoBC,
         cfg |-> o.cfg, closure |-> o.closure]
  IN  IF ~m1.solved.known
      THEN [model |-> m1, vel |-> o1,
            call  |-> rec("RuntimeError", "newton", <<"bcs", "newton">>)]
      ELSE [model |-> m2, vel |-> o1,
            call  |-> rec("ok", "none", <<"bcs", "newton", "split">>)]

(* --------------------------- AdjointVelocity -------------------------- *)

\* largest number of control fields in config['adjoint']['control_variable']
MaxControls == 2

\* physics.py:1968-1971
RegularizationTypes == {"TV", "Tikhonov"}

\* physics.py:1981-1995
ObjectiveFunctions == {"logarithmic", "kinematic", "linear", "log_lin_hybrid"}

\* physics.py:1942-1945
SurfaceIntegrals == {"shelves", "grounded"}

\* physics.py:1950-1953
Approximations == {"fo", "stokes"}

AdjConfigs ==
  [surface_integral : SurfaceIntegrals \cup {Unrecognized},
   approximation : Approximations \cup {Unrecognized},
   pressure_bc : BOOLEAN,
   regularization_type : RegularizationTypes \cup {Unrecognized},
   objective_function : ObjectiveFunctions \cup {Unrecognized},
   ncontrol : 0..MaxControls]

NoAdjConfig ==
  [surface_integral |-> "none", approximation |-> "none", pressure_bc |-> FALSE,
   regularization_type |-> "none", objective_function |-> "none", ncontrol |-> 0]

NoAdjoint ==
  [class |-> "none", cfg |-> NoAdjConfig, A |-> {}, R |-> {},
   I |-> "none", J |-> <<>>]

NoAdjCall ==
  [op |-> "none", outcome |-> "ok", raised_by |-> "none", steps |-> <<>>,
   printed |-> {}, cfg |-> NoAdjConfig]

\* the functional A rebuilt at physics.py:1950-1959; "unbound" when neither
\* branch of the if / elif ran, so that the local name A has no value
AdjFunctional(approximation) ==
  IF approximation = "fo"
  THEN { <<"Vd_shf", "dx_s">>, <<"Vd_gnd", "dx_g">>, <<"Pe", "dx">>,
         <<"Sl_gnd", "dGnd">>, <<"Sl_shf", "dFlt">> }
  ELSE IF approximation = "stokes"
  THEN { <<"Vd_shf", "dx_s">>, <<"Vd_gnd", "dx_g">>, <<"Pe", "dx">>,
         <<"Pc", "dx">>, <<"Lsq", "dx">>, <<"Sl_gnd", "dGnd">>,
         <<"Sl_shf", "dFlt">>, <<"Nc", "dGnd">> }
  ELSE { <<"unbound", "unbound">> }

AUnbound == { <<"unbound", "unbound">> }

\* state of the regularization loop: whether the local R is bound, the term
\* it holds, and the exception that left the loop ("none": still running)
RegStart == [exc |-> "none", bound |-> FALSE, R |-> {}, printed |-> {}]

\* the else branch as its message describes it (print, then R = 0 * dGnd):
\* what the loop body would do without the stray unary plus of line 1976
RegStepDefaulting(regType, i, acc) ==
  IF regType \in RegularizationTypes
  THEN [acc EXCEPT !.bound = TRUE, !.R = {[kind |-> regType, control |-> i]}]
  ELSE [acc EXCEPT !.bound = TRUE, !.R = {[kind |-> "zero", control |-> i]},
                   !.printed = {"defaulting to no regularization"}]

\* one pass of the loop body for control field i (physics.py:1964-1978).
\* R is assigned (not accumulated) in each pass.  In the else branch the
\* message is built as "..." + (+ "..."): the unary plus on a str raises
\* TypeError before print_text and before R = Constant(0.0) * dGnd.
RegStep(regType, i, acc) ==
  IF regType \in RegularizationTypes
  THEN [acc EXCEPT !.bound = TRUE, !.R = {[kind |-> regType, control |-> i]}]
  ELSE [acc EXCEPT !.exc = "TypeError"]

RECURSIVE RegLoop(_, _, _, _)
\* for a, c in zip(alpha, control), physics.py:1963
RegLoop(regType, i, n, acc) ==
  IF i > n \/ acc.exc # "none" THEN acc
  ELSE RegLoop(regType, i + 1, n, RegStep(regType, i, acc))

\* the else branch falling back to the least-squares objective instead of
\* stopping the process
ObjectiveDefaulting(objective) ==
  IF objective \in ObjectiveFunctions THEN objective ELSE "linear"

\* the objective chain, physics.py:1981-2007: the functional selected, or
\* "exit" for the else branch (print_text, then exit(1))
Objective(objective) ==
  IF objective \in ObjectiveFunctions THEN objective ELSE "exit"

\* AdjointVelocity.__init__ (physics.py:1904-2038) with configuration c;
\* old is the object the driver held before
AdjointInit(old, lam, c) ==
  LET dSrfBound == c.surface_integral \in SurfaceIntegrals     \* lines 1942-1945
      A0   == AdjFunctional(c.approximation)                    \* lines 1950-1956
      A    == A0 \cup PressureTerm(c.pressure_bc)               \* lines 1957-1959
      reg  == RegLoop(c.regularization_type, 1, c.ncontrol, RegStart)
      obj  == Objective(c.objective_function)
      rec(out, by, stps, pr) ==
        [op |-> "AdjointVelocity.__init__", outcome |-> out, raised_by |-> by,
         steps |-> stps, printed |-> pr, cfg |-> c]
      fail(out, by, stps, pr) ==
        [adj |-> old, Lam |-> lam, call |-> rec(out, by, stps, pr)]
  IN  IF A0 = AUnbound /\ c.pressure_bc                         \* A += Pb*dSde
      THEN fail("NameError", "A", <<>>, {})
      ELSE IF reg.exc # "none"
      THEN fail(reg.exc, "R", <<"A">>, reg.printed)
      ELSE IF obj = "exit"
      THEN fail("SystemExit", "objective", <<"A", "R">>,
                reg.printed \cup {"adjoint objective function may be ..."})
      ELSE IF ~dSrfBound
      THEN fail("NameError", "dSrf", <<"A", "R">>, reg.printed)
      ELSE IF ~reg.bound
      THEN fail("NameError", "R", <<"A", "R">>, reg.printed)
      ELSE IF A0 = AUnbound                                     \* TestFunction(Q_adj)
      THEN fail("NameError", "Q_adj", <<"A", "R", "I">>, reg.printed)
      ELSE [adj  |-> [class |-> "Adjoint", cfg |-> c, A |-> A, R |-> reg.R,
                      I |-> obj,
                      J |-> [i \in 1..c.ncontrol |-> [wrt |-> i, R |-> reg.R]]],
            Lam  |-> ZeroField,                                 \* line 2010
            call |-> rec("ok", "none", <<"A", "R", "I", "Lam", "dI", "J">>,
                         reg.printed)]

\* an adjoint solve that drives the optimisation itself: two linear solves
\* with an update of the control field beta in between
AdjointSolveOptimising(o, m, lam, linOk, lamNew) ==
  [Lam   |-> lamNew,
   model |-> [m EXCEPT !.beta = [from |-> "adjoint", at |-> lamNew, val |-> 0]],
   call  |-> [op |-> "AdjointVelocity.solve", outcome |-> "ok",
              raised_by |-> "none", steps |-> <<"linear", "control", "linear">>,
              printed |-> {}, cfg |-> o.cfg]]

\* AdjointVelocity.solve (physics.py:2040-2053) on object o: one linear solve
\* into model.Lam; the rest of the model m is handed back as it was
AdjointSolve(o, m, lam, linOk, lamNew) ==
  LET rec(out, by) ==
        [op |-> "AdjointVelocity.solve", outcome |-> out, raised_by |-> by,
         steps |-> <<"linear">>, printed |-> {}, cfg |-> o.cfg]
  IN  IF linOk THEN [Lam |-> lamNew, model |-> m, call |-> rec("ok", "none")]
      ELSE [Lam |-> lam, model |-> m, call |-> rec("RuntimeError", "linear")]

InitAdj ==
  /\ aconfig \in AdjConfigs
  /\ adj = NoAdjoint
  /\ acall = NoAdjCall
  /\ Lam = ZeroField

\* the driver builds an AdjointVelocity from the configuration
ConstructAdjoint ==
  LET r == AdjointInit(adj, Lam, aconfig)
  IN  /\ adj' = r.adj
      /\ Lam' = r.Lam
      /\ acall' = r.call
      /\ UNCHANGED <<aconfig, velVars, enthVars, meshVars, surfVars, dataVars>>

\* the driver calls solve() on the AdjointVelocity it holds
SolveAdjoint ==
  /\ adj.class = "Adjoint"
  /\ \E linOk \in BOOLEAN, lamNew \in Vals :
       LET r == AdjointSolve(adj, model, Lam, linOk, lamNew)
       IN  /\ Lam' = r.Lam
           /\ model' = r.model
           /\ acall' = r.call
           /\ UNCHANGED <<aconfig, adj, config, vel, call, SlBound, enthVars, meshVars, surfVars, dataVars>>

NextAdj == ConstructAdjoint \/ SolveAdjoint

(* ----------------------- Enthalpy and EnthalpyDG ---------------------- *)
(* Nodal arithmetic is exact: H and T0 are integers, and the fields the    *)
(* code obtains by dividing are held multiplied by the divisor:            *)
(*   thermo.T    holds ci * T        (T = H/ci, or T0 where warm),         *)
(*   thermo.W, thermo.W0, thermo.W_r hold 100 * L * W                      *)
(*                                    (W = (H - ci*T0)/L).                 *)
(* In these units the cap 1.00 is 100 * L and the cap 0.01 is L.           *)

\* number of nodes of the mesh
NNodes == 2

Nodes == 1..NNodes

\* heat capacity of ice model.ci and latent heat model.L, in model units
ci == 2

L == 200

\* triple-point temperature model.T_w and Clausius-Clapeyron slope model.gamma
T_w == 4

gamma == 1

\* enthalpies the linear solver can return at a node: around the melting
\* enthalpies ci * T0 of the nodes (cold or barely temperate, between the
\* two caps, at or above the upper cap)
HVals == {7, 11, 208}

ZeroArray == [n \in Nodes |-> 0]

\* project(T_w - gamma * (S - x[2]), Q), physics.py:1127 and 1491: node n lies
\* n - 1 length units below the surface
PressureMelting == [n \in Nodes |-> T_w - gamma * (n - 1)]

InitThermo ==
  [H |-> ZeroArray, T0 |-> ZeroArray, T |-> ZeroArray, W |-> ZeroArray,
   W0 |-> ZeroArray, W_r |-> ZeroArray, rebound |-> {}]

\* a reference to a velocity component held by a form: live while the name
\* model.u (v, w) still denotes the object the form was built with, and
\* otherwise the values that object was left with
LiveRef == [live |-> TRUE, val |-> ZeroField]

\* an enthalpy object: its class, the u, v, w its forms were built with and
\* its list self.bc_H
NoEnth ==
  [class |-> "none", u |-> LiveRef, v |-> LiveRef, w |-> LiveRef, bc_H |-> <<>>,
   n |-> 0]

\* u = model.u; v = model.v; w = model.w (physics.py:1082-1084, 1438-1440),
\* read by q_friction and by the advection velocity of the forms
\* n = model.n (physics.py:1057, 1414) is the exponent of the strain heating
\* Q_s_gnd, Q_s_shf (physics.py:1144-1145, 1509-1510)
EnthObject(class, bcs, m) ==
  [class |-> class, u |-> LiveRef, v |-> LiveRef, w |-> LiveRef, bc_H |-> bcs,
   n |-> m.n]

\* the components a momentum call bound to new objects: the split of
\* physics.py:893 (u, v) and 420 (u, v, w), and the stores of 374-376
Rebinds(c) ==
  IF c.op = "VelocityBP.solve" /\ (\E i \in DOMAIN c.steps : c.steps[i] = "split")
  THEN {"u", "v"}
  ELSE IF c.op = "VelocityStokes.solve"
          /\ (\E i \in DOMAIN c.steps : c.steps[i] = "split")
  THEN {"u", "v", "w"}
  ELSE IF c.op = "VelocityStokes.__init__"
          /\ (\E i \in DOMAIN c.steps : c.steps[i] = "store")
  THEN {"u", "v", "w"}
  ELSE {}

\* what becomes of a held reference when the names in names are bound to new
\* objects: the old object keeps the values it had (those of model m)
DetachRef(ref, name, names, old) ==
  IF ref.live /\ name \in names THEN [live |-> FALSE, val |-> old] ELSE ref

Detach(e, names, m) ==
  [e EXCEPT !.u = DetachRef(e.u, "u", names, m.u),
            !.v = DetachRef(e.v, "v", names, m.v),
            !.w = DetachRef(e.w, "w", names, m.w)]

\* the value a form reads through a reference
Deref(ref, current) == IF ref.live THEN current ELSE ref.val

\* the velocity the forms of enthalpy object e read when they are assembled
FormVelocity(e, m) ==
  [u |-> Deref(e.u, m.u), v |-> Deref(e.v, m.v), w |-> Deref(e.w, m.w)]

NoVelocity == [u |-> ZeroField, v |-> ZeroField, w |-> ZeroField]

NoEnthCall ==
  [op |-> "none", outcome |-> "ok", steps |-> <<>>, velocity |-> NoVelocity,
   bcs |-> <<>>]

\* model.mask != None, and config['enthalpy']['lateral_boundaries']: None or
\* the value to hold on the sides
EnthConfigs == [mask : BOOLEAN, lateral_boundaries : {"None", "lat_bc"}]

\* the markers of model.ff that physics.py integrates over: 2 and 6 upper
\* surface, 3 grounded bed, 5 floating bed, 4 sides
SrfMarker == 2
GndMarker == 3
SdeMarker == 4
FltMarker == 5

\* the marker of the upper surface of floating ice (physics.py:1217, 1935)
ShfMarker == 6

\* DirichletBC(Q, value, model.ff, marker)
EnthalpyBC(value, marker) == [value |-> value, marker |-> marker]

\* appends to the list old the conditions of physics.py:1212-1222 (Enthalpy)
\* and 1640-1649 (EnthalpyDG): the surface, the two conditions under
\* model.mask != None, the lateral one
AppendEnthalpyBCs(old, c) ==
  LET b1 == Append(old, EnthalpyBC("H_surface", SrfMarker))
      b2 == IF c.mask
            THEN b1 \o << EnthalpyBC("H_float", FltMarker),
                          EnthalpyBC("H_surface", ShfMarker) >>
            ELSE b1
  IN  IF c.lateral_boundaries # "None"
      THEN Append(b2, EnthalpyBC(c.lateral_boundaries, SdeMarker))
      ELSE b2

\* the appends on the list the object already holds
EnthalpyBCsKept(old, c) == AppendEnthalpyBCs(old, c)

\* self.bc_H = [] (physics.py:1211 and 1639) followed by the appends
EnthalpyBCs(old, c) == AppendEnthalpyBCs(<<>>, c)

\* Enthalpy.__init__, physics.py:1127: model.assign_variable(T0, ...)
EnthalpyInit(t) == [t EXCEPT !.T0 = PressureMelting]

\* EnthalpyDG.__init__, physics.py:1482-1497 and 1582-1587: q_geo, T0,
\* H_surface, H_float and H are replaced by new Functions on DQ
EnthalpyDGInit(t) ==
  [t EXCEPT !.T0 = PressureMelting, !.H = ZeroArray,
            !.rebound = @ \cup {"H", "q_geo", "T0", "H_surface", "H_float"}]

\* T_n = project(H/ci, Q); cold = T_n_v < T0_v  (physics.py:1346-1352)
Cold(H, T0) == {n \in Nodes : H[n] < ci * T0[n]}

\* warm = T_n_v >= T0_v
Warm(H, T0) == {n \in Nodes : H[n] >= ci * T0[n]}

\* T_n_v[warm] = T0_v[warm], physics.py:1353 (ci * T)
TemperatureUpdate(H, T0) ==
  [n \in Nodes |-> IF n \in Warm(H, T0) THEN ci * T0[n] ELSE H[n]]

\* the temperature update without the cap at the pressure-melting point
TemperatureUncapped(H, T0) == [n \in Nodes |-> H[n]]

\* the same statements in EnthalpyDG.solve, physics.py:1665-1672
TemperatureUpdateDG(H, T0) ==
  [n \in Nodes |-> IF n \in Warm(H, T0) THEN ci * T0[n] ELSE H[n]]

\* W_n = project((H - ci*T0)/L, Q), physics.py:1366 and 1676  (100 * L * W)
WaterContent(H, T0) == [n \in Nodes |-> 100 * (H[n] - ci * T0[n])]

\* W_v[cold] = 0.0, physics.py:1370 and 1680
ZeroCold(Wv, cold) == [n \in Nodes |-> IF n \in cold THEN 0 ELSE Wv[n]]

\* W_v[W_v > 1.00] = 1.00, physics.py:1371
CapOne(Wv) == [n \in Nodes |-> IF Wv[n] > 100 * L THEN 100 * L ELSE Wv[n]]

\* W_v[W_v > 0.01] = 0.01, physics.py:1377 and 1685
CapRheology(Wv) == [n \in Nodes |-> IF Wv[n] > L THEN L ELSE Wv[n]]

\* model.assign_variable(field, array): the array's values are copied into
\* the field's own storage, so a later in-place change of the array does
\* not reach the field
assign_variable(array) == array

\* Enthalpy.solve with W stored after the rheology cap was applied to the
\* array (the field sharing the array's storage instead of copying it)
EnthalpySolveAliased(t, o, U, linOk, Hnew) ==
  LET t1   == [t EXCEPT !.H = Hnew]
      cold == Cold(t1.H, t1.T0)
      Wv2  == CapRheology(CapOne(ZeroCold(WaterContent(t1.H, t1.T0), cold)))
  IN  [thermo |-> [t1 EXCEPT !.T = TemperatureUpdate(t1.H, t1.T0),
                             !.W0 = t.W, !.W = Wv2, !.W_r = Wv2],
       call |-> [op |-> "Enthalpy.solve", outcome |-> "ok",
                 steps |-> <<"linear", "T", "W0", "W", "W_r", "Mb", "rho">>,
                 velocity |-> U, bcs |-> o.bc_H]]

\* Enthalpy.solve (physics.py:1232-1392); linOk: whether the linear solve
\* succeeds, Hnew: the enthalpy it returns
EnthalpySolve(t, o, U, linOk, Hnew) ==
  LET t1   == [t EXCEPT !.H = Hnew]                             \* line 1339
      cold == Cold(t1.H, t1.T0)
      t2   == [t1 EXCEPT !.T = assign_variable(TemperatureUpdate(t1.H, t1.T0))]
      Wv1  == CapOne(ZeroCold(WaterContent(t2.H, t2.T0), cold)) \* lines 1369-1371
      t3   == [t2 EXCEPT !.W0 = assign_variable(t2.W)]          \* line 1372
      t4   == [t3 EXCEPT !.W = assign_variable(Wv1)]            \* line 1373
      Wv2  == CapRheology(Wv1)                                  \* line 1377
      t5   == [t4 EXCEPT !.W_r = assign_variable(Wv2)]          \* line 1378
  IN  IF ~linOk
      THEN [thermo |-> t,
            call |-> [op |-> "Enthalpy.solve", outcome |-> "RuntimeError",
                      steps |-> <<"linear">>, velocity |-> U,
                      bcs |-> o.bc_H]]
      ELSE [thermo |-> t5,
            call |-> [op |-> "Enthalpy.solve", outcome |-> "ok",
                      steps |-> <<"linear", "T", "W0", "W", "W_r", "Mb", "rho">>,
                 velocity |-> U, bcs |-> o.bc_H]]

\* EnthalpyDG.solve (physics.py:1597-1701) on object o with configuration c
EnthalpyDGSolve(t, o, c, U, linOk, Hnew) ==
  LET o1   == [o EXCEPT !.bc_H = EnthalpyBCs(o.bc_H, c)]        \* lines 1639-1649
      t1   == [t EXCEPT !.H = Hnew]                             \* line 1657
      cold == Cold(t1.H, t1.T0)
      t2   == [t1 EXCEPT !.T = assign_variable(TemperatureUpdateDG(t1.H, t1.T0))]
      Wv1  == ZeroCold(WaterContent(t2.H, t2.T0), cold)         \* lines 1679-1680
      t3   == [t2 EXCEPT !.W0 = assign_variable(t2.W)]          \* line 1681
      t4   == [t3 EXCEPT !.W = assign_variable(Wv1)]            \* line 1682
      Wv2  == CapRheology(Wv1)                                  \* line 1685
      t5   == [t4 EXCEPT !.W_r = assign_variable(Wv2)]          \* line 1686
  IN  IF ~linOk
      THEN [thermo |-> t, enth |-> o1,
            call |-> [op |-> "EnthalpyDG.solve", outcome |-> "RuntimeError",
                      steps |-> <<"bcs", "linear">>, velocity |-> U,
                      bcs |-> o1.bc_H]]
      ELSE [thermo |-> t5, enth |-> o1,
            call |-> [op |-> "EnthalpyDG.solve", outcome |-> "ok",
                      steps |-> <<"bcs", "linear", "T", "W0", "W", "W_r", "Mb", "rho">>,
                      velocity |-> U, bcs |-> o1.bc_H]]

InitEnth ==
  /\ econfig \in EnthConfigs
  /\ thermo = InitThermo
  /\ enth = NoEnth
  /\ ecall = NoEnthCall

\* no enthalpy object: a model without mask, no lateral condition asked for
IdleEnth ==
  /\ econfig = [mask |-> FALSE, lateral_boundaries |-> "None"]
  /\ thermo = InitThermo
  /\ enth = NoEnth
  /\ ecall = NoEnthCall

\* the driver builds an Enthalpy
ConstructEnthalpy ==
  /\ thermo' = EnthalpyInit(thermo)
  /\ enth' = EnthObject("Enthalpy", EnthalpyBCs(<<>>, econfig), model)
  /\ ecall' = [op |-> "Enthalpy.__init__", outcome |-> "ok",
               steps |-> <<"T0", "forms", "bc_H">>, velocity |-> NoVelocity,
               bcs |-> <<>>]
  /\ UNCHANGED <<econfig, velVars, adjVars, meshVars, surfVars, dataVars>>

\* the driver builds an EnthalpyDG
ConstructEnthalpyDG ==
  /\ thermo' = EnthalpyDGInit(thermo)
  /\ enth' = EnthObject("EnthalpyDG", <<>>, model)
  /\ ecall' = [op |-> "EnthalpyDG.__init__", outcome |-> "ok",
               steps |-> <<"T0", "forms", "H">>, velocity |-> NoVelocity,
               bcs |-> <<>>]
  /\ UNCHANGED <<econfig, velVars, adjVars, meshVars, surfVars, dataVars>>

\* the driver calls solve() on the Enthalpy it holds
SolveEnthalpy ==
  /\ enth.class = "Enthalpy"
  /\ \E linOk \in BOOLEAN :
     \E Hnew \in (IF linOk THEN [Nodes -> HVals] ELSE {thermo.H}) :
       LET r == EnthalpySolve(thermo, enth, FormVelocity(enth, model), linOk, Hnew)
       IN  /\ thermo' = r.thermo
           /\ ecall' = r.call
           /\ UNCHANGED <<econfig, enth, velVars, adjVars, meshVars, surfVars, dataVars>>

\* the driver calls solve() on the EnthalpyDG it holds
SolveEnthalpyDG ==
  /\ enth.class = "EnthalpyDG"
  /\ \E linOk \in BOOLEAN :
     \E Hnew \in (IF linOk THEN [Nodes -> HVals] ELSE {thermo.H}) :
       LET r == EnthalpyDGSolve(thermo, enth, econfig, FormVelocity(enth, model),
                                linOk, Hnew)
       IN  /\ thermo' = r.thermo
           /\ enth' = r.enth
           /\ ecall' = r.call
           /\ UNCHANGED <<econfig, velVars, adjVars, meshVars, surfVars, dataVars>>

NextEnth ==
  ConstructEnthalpy \/ ConstructEnthalpyDG \/ SolveEnthalpy \/ SolveEnthalpyDG

(* ------------------------ boundary integration ------------------------ *)

Facets == 1..NFacets

Markers == {SrfMarker, GndMarker, SdeMarker, FltMarker}

\* ds(k): the measure that counts once every facet whose marker is k
ds(mf, k) == [f \in Facets |-> IF mf[f] = k THEN 1 ELSE 0]

\* the sum of two measures integrates over both
MeasureSum(a, b) == [f \in Facets |-> a[f] + b[f]]

\* a bed measure that counts the grounded facets twice
BedMeasuresOverlapping(mf) ==
  [dGnd |-> ds(mf, GndMarker),
   dFlt |-> ds(mf, FltMarker),
   dSde |-> ds(mf, SdeMarker),
   dBed |-> MeasureSum(MeasureSum(ds(mf, GndMarker), ds(mf, FltMarker)),
                       ds(mf, GndMarker))]

\* physics.py:253-256 (and 622-625, 1101-1104, 1457-1460, 1937-1940)
BedMeasures(mf) ==
  [dGnd |-> ds(mf, GndMarker),
   dFlt |-> ds(mf, FltMarker),
   dSde |-> ds(mf, SdeMarker),
   dBed |-> MeasureSum(ds(mf, GndMarker), ds(mf, FltMarker))]

\* the boundary terms each module integrates over a part of the bed, in the
\* order of the sum in the source
BedForms ==
  [VelocityBP |-> << <<"Sl_gnd", "dGnd">>, <<"Sl_shf", "dFlt">> >>,
   VelocityBP_w |-> << <<"w_R", "dBed">> >>,
   VelocityStokes |-> << <<"Sl", "dGnd">>, <<"Nc", "dBed">> >>,
   Adjoint_fo |-> << <<"Sl_gnd", "dGnd">>, <<"Sl_shf", "dFlt">> >>,
   Adjoint_stokes |->
     << <<"Sl_gnd", "dGnd">>, <<"Sl_shf", "dFlt">>, <<"Nc", "dGnd">> >>,
   Enthalpy |-> << <<"q_geo+q_friction", "dGnd">> >>]

TermsOf(form) == {form[i][1] : i \in DOMAIN form}

RECURSIVE TimesCounted(_, _, _, _)
\* how many times the sum form integrates term t over facet f
TimesCounted(form, measures, t, f) ==
  IF form = <<>> THEN 0
  ELSE (IF Head(form)[1] = t THEN measures[Head(form)[2]][f] ELSE 0)
       + TimesCounted(Tail(form), measures, t, f)

\* assemble(form): per term and facet, the multiplicity of the integral
AssembleBed(name, mf) ==
  [form |-> name,
   count |-> [t \in TermsOf(BedForms[name]) |->
               [f \in Facets |->
                 TimesCounted(BedForms[name], BedMeasures(mf), t, f)]]]

NoBedIntegrals == [form |-> "none", count |-> <<>>]

InitMesh ==
  /\ ff \in [Facets -> Markers]
  /\ bedint = NoBedIntegrals

\* a module assembles its boundary form on the mesh
Assemble ==
  \E name \in DOMAIN BedForms :
    /\ bedint' = AssembleBed(name, ff)
    /\ UNCHANGED <<ff, velVars, adjVars, enthVars, surfVars, dataVars>>

NextMesh == Assemble

\* a mesh no module has assembled on: every boundary facet on the grounded bed
IdleMesh ==
  /\ ff = [f \in Facets |-> GndMarker]
  /\ bedint = NoBedIntegrals

(* ----------------------------- FreeSurface ---------------------------- *)

(* The flat mesh is a row of NNodes columns, each with a node on the        *)
(* surface and a node below it.  u, v, w and the slope of S are uniform     *)
(* over the row, smb is nodal; dSdt holds the values of model.dSdt at the   *)
(* surface nodes and dSdt_int those at the nodes below.  Residuals and dSdt *)
(* are held doubled, so that the streamline weight h/(2|u|) of the test     *)
(* function is an integer.                                                  *)

FSConfigs ==
  [lump_mass_matrix : BOOLEAN, static_boundary_conditions : BOOLEAN,
   use_shock_capturing : BOOLEAN]

\* +1 at the downstream end of the row, -1 at the upstream end: the integral
\* of the x-derivative of the nodal test function
EndSign(i) == IF i = 1 THEN -1 ELSE IF i = NNodes THEN 1 ELSE 0

\* the columns on the lateral boundary, model.ff_flat marker 4 (physics.py:1807)
LateralNodes == {1, NNodes}

\* physics.py:1811-1813: phihat = phi + h/(2 unorm)(uhat phi.dx(0) + vhat phi.dx(1)),
\* doubled and integrated over the surface
TestWeight(h, i) == 2 + (IF h.u + h.v > 0 THEN EndSign(i) ELSE 0)

\* physics.py:1818-1820: the integrand of stiffness_matrix
Forcing(h, i) == - h.u * h.Sx - h.v * h.Sy + (h.w + h.a[i])

\* r = assemble(self.stiffness_matrix) (physics.py:1861)
Stiffness(h) == [i \in Nodes |-> Forcing(h, i) * TestWeight(h, i)]

\* a shock-capturing coefficient that does not vanish with the residual
ShockCoefficientUnweighted(h, i) == h.Sx * h.Sx + h.Sy * h.Sy + 1

\* physics.py:1823-1827: C = 10 h/(2 unorm) * term1 * term2**2
ShockCoefficient(h, i) ==
  LET term1 == h.Sx * h.Sx + h.Sy * h.Sy + 1
      term2 == h.u * h.Sx + h.v * h.Sy - (h.w + h.a[i])
  IN  term1 * term2 * term2

\* k = assemble(self.diffusion_matrix) (physics.py:1828, 1875), doubled:
\* C dot(grad(phi), grad(Shat)) on a surface of uniform slope
Diffusion(h) ==
  [i \in Nodes |-> 2 * ShockCoefficient(h, i) * EndSign(i) * (h.Sx + h.Sy)]

\* self.static_boundary.apply(m, r) (physics.py:1872): the value 0.0 on the
\* rows of the lateral boundary
ApplyStatic(r) == [i \in Nodes |-> IF i \in LateralNodes THEN 0 ELSE r[i]]

\* m_l[m_l==0.0] = 1.0; m_l_inv = 1./m_l (physics.py:1866-1869): the lumped
\* mass of a surface column is its unit area
LumpedMass == [i \in Nodes |-> 1]

\* the right-hand side after the optional steps of physics.py:1871-1877
Residual(c, h) ==
  LET r0 == Stiffness(h)
      r1 == IF c.static_boundary_conditions THEN ApplyStatic(r0) ELSE r0
  IN  IF c.use_shock_capturing
      THEN [i \in Nodes |-> r1[i] - Diffusion(h)[i]]
      ELSE r1

\* solve(m, model.dSdt.vector(), r) (physics.py:1882-1883): m is the mass
\* matrix with its empty rows made identity, so the solution is zero
\* exactly when r is; otherwise it scales with the area of the columns
\* (unit, or half a unit).  A row static_boundary.apply made identity
\* returns the entry of r.
MassSolutions(c, r) ==
  LET pinned(i) == c.static_boundary_conditions /\ i \in LateralNodes
  IN  IF r = ZeroArray THEN {ZeroArray}
      ELSE {[i \in Nodes |-> IF pinned(i) THEN r[i] ELSE k * r[i]] : k \in 1..2}

\* physics.py:1885-1889: p = assemble(rhs(A_pro)) is minus the surface value
\* of dSdt, and A = assemble(lhs(A_pro)) carries it down the column unchanged
\* with the opposite sign
Extrude(d) ==
  LET p == [i \in Nodes |-> - d[i]]
  IN  [i \in Nodes |-> - p[i]]

\* physics.py:1854-1858: the hat functions take the current model values
AssignHats(sf, m) ==
  [Sx |-> sf.Sx, Sy |-> sf.Sy, a |-> sf.smb, u |-> m.u, v |-> m.v, w |-> m.w]

NoHats ==
  [Sx |-> 0, Sy |-> 0, a |-> ZeroArray, u |-> ZeroField, v |-> ZeroField,
   w |-> ZeroField]

\* FreeSurface.solve (physics.py:1842-1889); x is what the mass-matrix solve
\* returns when the mass matrix is not lumped
FreeSurfaceSolve(c, sf, m, x) ==
  LET h == AssignHats(sf, m)
      r == Residual(c, h)
      \* lines 1879-1883: the rows of the nodes below the surface are empty,
      \* so both paths leave zero there
      d == IF c.lump_mass_matrix
           THEN [i \in Nodes |-> r[i] \div LumpedMass[i]]
           ELSE x
      sf1 == [sf EXCEPT !.hat = h, !.dSdt = d, !.dSdt_int = ZeroArray]
      \* lines 1885-1889: model.assign_variable(model.dSdt, q)
      q == Extrude(sf1.dSdt)
      sf2 == [sf1 EXCEPT !.dSdt = q, !.dSdt_int = q]
  IN  [surf |-> sf2,
       call |-> [op |-> "FreeSurface.solve", outcome |-> "ok",
                 residual |-> r, before |-> sf.dSdt,
                 kinematic |-> [dSdt |-> sf1.dSdt, dSdt_int |-> sf1.dSdt_int]]]

NoSurfCall ==
  [op |-> "none", outcome |-> "ok", residual |-> ZeroArray,
   before |-> ZeroArray,
   kinematic |-> [dSdt |-> ZeroArray, dSdt_int |-> ZeroArray]]

\* the surface fields the driver hands over
InitSurf ==
  /\ fsconfig \in FSConfigs
  /\ \E sx \in 0..1, sy \in 0..1, d \in 0..1 :
       \E smb \in [Nodes -> 0..1] :
         surf = [Sx |-> sx, Sy |-> sy, smb |-> smb,
                 dSdt |-> [i \in Nodes |-> d], dSdt_int |-> [i \in Nodes |-> d],
                 hat |-> NoHats]
  /\ fs = "none"
  /\ fscall = NoSurfCall

\* the driver builds a FreeSurface (physics.py:1780-1840)
ConstructFreeSurface ==
  /\ fs' = "FreeSurface"
  /\ fscall' = [NoSurfCall EXCEPT !.op = "FreeSurface.__init__",
                                  !.before = surf.dSdt]
  /\ UNCHANGED <<fsconfig, surf, velVars, adjVars, enthVars, meshVars, dataVars>>

\* the driver calls FreeSurface.solve()
SolveFreeSurface ==
  /\ fs = "FreeSurface"
  /\ \E x \in MassSolutions(fsconfig,
                            Residual(fsconfig, AssignHats(surf, model))) :
       LET r == FreeSurfaceSolve(fsconfig, surf, model, x)
       IN  /\ surf' = r.surf
           /\ fscall' = r.call
  /\ UNCHANGED <<fsconfig, fs, velVars, adjVars, enthVars, meshVars, dataVars>>

NextSurf == ConstructFreeSurface \/ SolveFreeSurface

\* no FreeSurface: a flat surface without accumulation
IdleSurf ==
  /\ fsconfig = [lump_mass_matrix |-> FALSE,
                 static_boundary_conditions |-> FALSE,
                 use_shock_capturing |-> FALSE]
  /\ surf = [Sx |-> 0, Sy |-> 0, smb |-> ZeroArray, dSdt |-> ZeroArray,
             dSdt_int |-> ZeroArray, hat |-> NoHats]
  /\ fs = "none"
  /\ fscall = NoSurfCall

\* a model whose velocity components the driver or a momentum balance has
\* set, with no momentum-balance object held
GivenVelocity ==
  /\ config = [viscosity_mode |-> "isothermal", boundaries |-> "homogeneous",
               init_beta_from_stats |-> FALSE, pressure_bc |-> FALSE]
  /\ \E a \in Vals, b \in Vals, c \in Vals :
       model = [InitModel EXCEPT !.u = a, !.v = b, !.w = c]
  /\ vel = NoObject /\ call = NoCall /\ SlBound = FALSE

(* ------------------ the momentum-balance state machine ---------------- *)

InitVel ==
  /\ config \in VelConfigs
  /\ model = InitModel
  /\ vel = NoObject
  /\ call = NoCall
  /\ SlBound \in BOOLEAN

\* the driver builds a VelocityBP from the configuration
ConstructBP ==
  LET r == BPInit(model, config)
  IN  /\ model' = r.model
      /\ vel' = r.vel
      /\ call' = r.call
      /\ enth' = Detach(enth, Rebinds(r.call), model)
      /\ UNCHANGED <<config, SlBound, adjVars, econfig, thermo, ecall, meshVars, surfVars, dataVars>>

\* the driver builds a VelocityStokes from the configuration
ConstructStokes ==
  LET r == StokesInit(model, vel, config, SlBound)
  IN  /\ model' = r.model
      /\ vel' = r.vel
      /\ call' = r.call
      /\ enth' = Detach(enth, Rebinds(r.call), model)
      /\ UNCHANGED <<config, SlBound, adjVars, econfig, thermo, ecall, meshVars, surfVars, dataVars>>

\* the driver calls solve() on the VelocityBP it holds
SolveBP ==
  /\ vel.class = "BP"
  /\ \E newtonOk \in BOOLEAN, linOk \in BOOLEAN, Unew \in Vals :
       LET r == BPSolve(model, vel, newtonOk, Unew, linOk)
       IN  /\ model' = r.model
           /\ call' = r.call
           /\ enth' = Detach(enth, Rebinds(r.call), model)
           /\ UNCHANGED <<vel, config, SlBound, adjVars, econfig, thermo, ecall, meshVars, surfVars, dataVars>>

\* the driver calls solve() on the VelocityStokes it holds
SolveStokes ==
  /\ vel.class = "Stokes"
  /\ \E newtonOk \in BOOLEAN, Unew \in Vals :
       LET r == StokesSolve(model, vel, newtonOk, Unew)
       IN  /\ model' = r.model
           /\ vel' = r.vel
           /\ call' = r.call
           /\ enth' = Detach(enth, Rebinds(r.call), model)
           /\ UNCHANGED <<config, SlBound, adjVars, econfig, thermo, ecall, meshVars, surfVars, dataVars>>

NextVel == ConstructBP \/ ConstructStokes \/ SolveBP \/ SolveStokes

(* ------------------------------ DataInput ----------------------------- *)

\* numpy's nan (inputoutput.py:4), kept apart from every number of a field
NaN == -1

\* the raw fields have NRows rows and NCols columns
NRows == 2

NCols == 2

\* the largest number a raw field or an argument holds
MaxData == 1

\* the keys of the dictionary di left after the pops of lines 52-63, in the
\* order of the loop of line 73
FieldOrder == << "a", "b" >>

Fields == {FieldOrder[k] : k \in DOMAIN FieldOrder}

Numbers == 0..MaxData

\* a numpy array of shape (r, c) with entries in S
Arrays(r, c, S) ==
  [shape : {<<r, c>>}, v : [(1..r) \X (1..c) -> S]]

\* linspace(a, b, n) (inputoutput.py:64-65) on an integer grid
Linspace(a, b, n) ==
  [i \in 1..n |-> IF n = 1 THEN a ELSE a + ((i - 1) * (b - a)) \div (n - 1)]

\* where(mask)[0], and the positions a boolean mask selects
Where(mask) ==
  SelectSeq([i \in 1..Len(mask) |-> i], LAMBDA i : mask[i])

\* A[ys, :][:, xs] for index lists ys and xs
Take(A, ys, xs) ==
  [shape |-> <<Len(ys), Len(xs)>>,
   v     |-> [p \in (1..Len(ys)) \X (1..Len(xs)) |-> A.v[<<ys[p[1]], xs[p[2]]>>]]]

\* s[idx] for a coordinate array s
Pick(s, idx) == [k \in 1..Len(idx) |-> s[idx[k]]]

\* s.min() and s.max() of a coordinate array that is not empty
ArrayMin(s) == CHOOSE a \in {s[k] : k \in DOMAIN s} : \A k \in DOMAIN s : a <= s[k]

ArrayMax(s) == CHOOSE a \in {s[k] : k \in DOMAIN s} : \A k \in DOMAIN s : a >= s[k]

\* all(isnan(data), axis=0)[j] and all(isnan(data), axis=1)[i]
AllNaNColumn(A, j) == \A i \in 1..A.shape[1] : A.v[<<i, j>>] = NaN

AllNaNRow(A, i) == \A j \in 1..A.shape[2] : A.v[<<i, j>>] = NaN

\* DataInput.__identify_nans (inputoutput.py:304-326) on object o
IdentifyNans(o, A) ==
  LET good_x == [j \in DOMAIN o.good_x |-> ~AllNaNColumn(A, j) /\ o.good_x[j]]
      good_y == [i \in DOMAIN o.good_y |-> ~AllNaNRow(A, i) /\ o.good_y[i]]
  IN  [o EXCEPT !.rem_nans = @ \/ good_x # o.good_x \/ good_y # o.good_y,
                !.good_x = good_x, !.good_y = good_y]

\* the statistics of lines 137-142 and 338-343: x.min() of an empty array
\* raises ValueError and leaves the assignments after it undone; raised
\* tells whether the method left the object by an exception
ReplaceStatistics(o) ==
  IF Len(o.x) = 0 THEN [o EXCEPT !.raised = TRUE]
  ELSE IF Len(o.y) = 0
  THEN [o EXCEPT !.x_min = ArrayMin(o.x), !.x_max = ArrayMax(o.x),
                 !.raised = TRUE]
  ELSE [o EXCEPT !.x_min = ArrayMin(o.x), !.x_max = ArrayMax(o.x),
                 !.y_min = ArrayMin(o.y), !.y_max = ArrayMax(o.y),
                 !.nx = Len(o.x), !.ny = Len(o.y)]

\* DataInput.__remove_nans (inputoutput.py:328-347): the coordinates and
\* the statistics first, the fields last
RemoveNans(o) ==
  LET xs == Where(o.good_x)
      ys == Where(o.good_y)
      o1 == ReplaceStatistics([o EXCEPT !.x = Pick(o.x, xs), !.y = Pick(o.y, ys)])
  IN  IF o1.raised THEN o1
      ELSE [o1 EXCEPT !.data = [f \in Fields |-> Take(o.data[f], ys, xs)]]

RECURSIVE IdentifyAll(_, _, _)
\* the loop of inputoutput.py:73-82 from the k-th key on
IdentifyAll(o, di, k) ==
  IF k > Len(FieldOrder) THEN o
  ELSE IdentifyAll(IdentifyNans(o, di[FieldOrder[k]]), di, k + 1)

\* DataInput.__init__ (inputoutput.py:41-85) on the dictionary di of raw
\* fields, with map edges 1 .. nx and 1 .. ny
DataInputInit(di) ==
  LET o0 == [data |-> di, rem_nans |-> FALSE, raised |-> FALSE,
             ny |-> NRows, nx |-> NCols,
             x_min |-> 1, x_max |-> NCols, y_min |-> 1, y_max |-> NRows,
             x |-> Linspace(1, NCols, NCols), y |-> Linspace(1, NRows, NRows),
             good_x |-> [j \in 1..NCols |-> TRUE],
             good_y |-> [i \in 1..NRows |-> TRUE]]
      o1 == IdentifyAll(o0, di, 1)
  IN  IF o1.rem_nans THEN RemoveNans(o1) ELSE o1                \* line 85

\* DataInput.reduce_size_to_box (inputoutput.py:109-142); xmax, ymax are the
\* projected lower-left corner and xmin, ymin the projected upper-right one
ReduceSizeToBox(o0, xmax, ymax, xmin, ymin) ==
  LET o  == [o0 EXCEPT !.raised = FALSE]
      xs == Where([j \in DOMAIN o.x |-> o.x[j] < xmin /\ o.x[j] > xmax])
      ys == Where([i \in DOMAIN o.y |-> o.y[i] < ymin /\ o.y[i] > ymax])
      o1 == [o EXCEPT !.data = [f \in Fields |-> Take(o.data[f], ys, xs)],
                      !.x = Pick(o.x, xs), !.y = Pick(o.y, ys)]
  IN  ReplaceStatistics(o1)

\* set_data_min (inputoutput.py:349-367): d[d <= boundary] = val on the
\* array of key fn; a comparison with nan is False
SetDataMin(o, fn, boundary, val) ==
  [o EXCEPT !.raised = FALSE,
            !.data[fn].v = [p \in DOMAIN @ |->
               IF @[p] # NaN /\ @[p] <= boundary THEN val ELSE @[p]]]

\* set_data_max (inputoutput.py:369-387): d[d >= boundary] = val
SetDataMax(o, fn, boundary, val) ==
  [o EXCEPT !.raised = FALSE,
            !.data[fn].v = [p \in DOMAIN @ |->
               IF @[p] # NaN /\ @[p] >= boundary THEN val ELSE @[p]]]

\* set_data_val (inputoutput.py:389-407): d[d == old_val] = new_val
SetDataVal(o, fn, old_val, new_val) ==
  [o EXCEPT !.raised = FALSE,
            !.data[fn].v = [p \in DOMAIN @ |->
               IF @[p] # NaN /\ @[p] = old_val THEN new_val ELSE @[p]]]

\* interpolate_from_di (inputoutput.py:212-241): the interpolant fo_v,
\* evaluated on the grid self.x, self.y, is stored under the key fo
InterpolateFromDi(o, fo, fo_v) ==
  [o EXCEPT !.raised = FALSE, !.data[fo] = fo_v]

\* no DataInput has been constructed
NoData ==
  [data |-> [f \in Fields |-> [shape |-> <<0, 0>>, v |-> << >>]],
   rem_nans |-> FALSE, raised |-> FALSE, ny |-> 0, nx |-> 0,
   x_min |-> 0, x_max |-> 0, y_min |-> 0, y_max |-> 0, x |-> <<>>, y |-> <<>>,
   good_x |-> <<>>, good_y |-> <<>>]

NoDataCall ==
  [op |-> "none", fn |-> "none", boundary |-> 0, val |-> 0, outcome |-> "none"]

DataCall(op, fn, boundary, val, o) ==
  [op |-> op, fn |-> fn, boundary |-> boundary, val |-> val,
   outcome |-> IF o.raised THEN "ValueError" ELSE "ok"]

InitData == dat = NoData /\ dcall = NoDataCall

\* the driver constructs the DataInput it works on from any dictionary of
\* raw fields; a constructor that raises binds no object
ConstructDataInput ==
  /\ dat = NoData
  /\ \E di \in [Fields -> Arrays(NRows, NCols, Numbers \cup {NaN})] :
       LET o == DataInputInit(di)
       IN  /\ dat' = IF o.raised THEN NoData ELSE o
           /\ dcall' = DataCall("__init__", "none", 0, 0, o)
  /\ UNCHANGED <<velVars, adjVars, enthVars, meshVars, surfVars>>

\* the driver reduces the DataInput it holds to a box
CallReduceSizeToBox ==
  /\ dat # NoData
  /\ \E xmax \in 0..1, xmin \in NCols..(NCols + 1),
        ymax \in 0..1, ymin \in NRows..(NRows + 1) :
       LET o == ReduceSizeToBox(dat, xmax, ymax, xmin, ymin)
       IN  /\ dat' = o
           /\ dcall' = DataCall("reduce_size_to_box", "none", 0, 0, o)
  /\ UNCHANGED <<velVars, adjVars, enthVars, meshVars, surfVars>>

CallSetDataMin ==
  /\ dat # NoData
  /\ \E fn \in Fields, boundary \in Numbers, val \in Numbers :
       LET o == SetDataMin(dat, fn, boundary, val)
       IN  /\ dat' = o
           /\ dcall' = DataCall("set_data_min", fn, boundary, val, o)
  /\ UNCHANGED <<velVars, adjVars, enthVars, meshVars, surfVars>>

CallSetDataMax ==
  /\ dat # NoData
  /\ \E fn \in Fields, boundary \in Numbers, val \in Numbers :
       LET o == SetDataMax(dat, fn, boundary, val)
       IN  /\ dat' = o
           /\ dcall' = DataCall("set_data_max", fn, boundary, val, o)
  /\ UNCHANGED <<velVars, adjVars, enthVars, meshVars, surfVars>>

CallSetDataVal ==
  /\ dat # NoData
  /\ \E fn \in Fields, old_val \in Numbers, new_val \in Numbers :
       LET o == SetDataVal(dat, fn, old_val, new_val)
       IN  /\ dat' = o
           /\ dcall' = DataCall("set_data_val", fn, old_val, new_val, o)
  /\ UNCHANGED <<velVars, adjVars, enthVars, meshVars, surfVars>>

\* the driver interpolates a field of another DataInput to this grid
CallInterpolateFromDi ==
  /\ dat # NoData
  /\ Len(dat.x) > 0 /\ Len(dat.y) > 0
  /\ \E fo \in Fields, fo_v \in Arrays(Len(dat.y), Len(dat.x), Numbers) :
       LET o == InterpolateFromDi(dat, fo, fo_v)
       IN  /\ dat' = o
           /\ dcall' = DataCall("interpolate_from_di", fo, 0, 0, o)
  /\ UNCHANGED <<velVars, adjVars, enthVars, meshVars, surfVars>>

NextData ==
  \/ ConstructDataInput \/ CallReduceSizeToBox \/ CallSetDataMin
  \/ CallSetDataMax \/ CallSetDataVal \/ CallInterpolateFromDi

(* --------------------------- specifications --------------------------- *)

\* the configuration and state in which the momentum balance rests while
\* another part of the layer is exercised
IdleVel ==
  /\ config = [viscosity_mode |-> "isothermal", boundaries |-> "homogeneous",
               init_beta_from_stats |-> FALSE, pressure_bc |-> FALSE]
  /\ model = InitModel /\ vel = NoObject /\ call = NoCall /\ SlBound = FALSE

IdleAdj ==
  /\ aconfig = [surface_integral |-> "grounded", approximation |-> "fo",
                pressure_bc |-> FALSE, regularization_type |-> "TV",
                objective_function |-> "linear", ncontrol |-> 1]
  /\ adj = NoAdjoint /\ acall = NoAdjCall /\ Lam = ZeroField

InitSpecVel == InitVel /\ IdleAdj /\ IdleEnth /\ IdleMesh /\ IdleSurf /\ InitData

InitSpecAdj == IdleVel /\ InitAdj /\ IdleEnth /\ IdleMesh /\ IdleSurf /\ InitData

InitSpecEnth == IdleVel /\ IdleAdj /\ InitEnth /\ IdleMesh /\ IdleSurf /\ InitData

\* the momentum balance: VelocityBP and VelocityStokes, any configuration
SpecVel == InitSpecVel /\ [][NextVel]_vars

\* the adjoint: AdjointVelocity, any configuration
SpecAdj == InitSpecAdj /\ [][NextAdj]_vars

\* the enthalpy solvers: Enthalpy and EnthalpyDG
SpecEnth == InitSpecEnth /\ [][NextEnth]_vars

InitSpecSeq == IdleVel /\ IdleAdj /\ IdleEnth /\ IdleMesh /\ IdleSurf /\ InitData

InitSpecMesh == IdleVel /\ IdleAdj /\ IdleEnth /\ InitMesh /\ IdleSurf /\ InitData

\* the boundary forms of the modules, assembled on any facet marking
SpecMesh == InitSpecMesh /\ [][NextMesh]_vars

InitSpecSurf == GivenVelocity /\ IdleAdj /\ IdleEnth /\ IdleMesh /\ InitSurf /\ InitData

\* the free-surface evolution: FreeSurface, any options and any velocity
SpecSurf == InitSpecSurf /\ [][NextSurf]_vars

InitSpecData == IdleVel /\ IdleAdj /\ IdleEnth /\ IdleMesh /\ IdleSurf /\ InitData

\* the data container: DataInput, any raw fields and any method calls
SpecData == InitSpecData /\ [][NextData]_vars

InitSpecBuild == InitVel /\ IdleAdj /\ IdleEnth /\ IdleMesh /\ IdleSurf /\ InitData

NextBuild ==
  ConstructBP \/ ConstructStokes \/ ConstructEnthalpy \/ ConstructEnthalpyDG

\* a driver that builds a momentum balance and an enthalpy solver on one
\* model, under any configuration
SpecBuild == InitSpecBuild /\ [][NextBuild]_vars

\* the momentum configurations that differ in the lateral boundary option
\* only, which is the option the boundary-condition lists are built from
BoundaryConfigs ==
  {c \in VelConfigs : /\ c.viscosity_mode = "isothermal"
                      /\ ~c.init_beta_from_stats /\ ~c.pressure_bc}

\* any boundary option of the momentum balance with the default enthalpy
\* options, or any enthalpy options with the default momentum options
InitSpecSolve ==
  /\ \/ /\ config \in BoundaryConfigs
        /\ model = InitModel /\ vel = NoObject /\ call = NoCall
        /\ SlBound \in BOOLEAN
        /\ IdleEnth
     \/ IdleVel /\ InitEnth
  /\ IdleAdj /\ IdleMesh /\ IdleSurf /\ InitData

\* the driver works on one object: a momentum balance or an enthalpy solver
NextSolve ==
  \/ enth.class = "none" /\ ConstructBP
  \/ enth.class = "none" /\ ConstructStokes
  \/ enth.class = "none" /\ SolveBP
  \/ enth.class = "none" /\ SolveStokes
  \/ vel.class = "none" /\ ConstructEnthalpy
  \/ vel.class = "none" /\ ConstructEnthalpyDG
  \/ vel.class = "none" /\ SolveEnthalpy
  \/ vel.class = "none" /\ SolveEnthalpyDG

\* a driver that builds one solver object of any of the four classes and
\* calls its solve() any number of times, under any boundary options
SpecSolve == InitSpecSolve /\ [][NextSolve]_vars

NextSeq == ConstructBP \/ SolveBP \/ ConstructEnthalpy \/ SolveEnthalpy

\* a driver that runs the reduced momentum balance and the enthalpy solver
\* on one model, in any order
SpecSeq == InitSpecSeq /\ [][NextSeq]_vars


(* ====================================================================== *)
(* Properties of the momentum solvers (checked under SpecVel)             *)
(* ====================================================================== *)

InitOps  == {"VelocityBP.__init__", "VelocityStokes.__init__"}
SolveOps == {"VelocityBP.solve", "VelocityStokes.solve"}

Count(seq, x) == Cardinality({i \in DOMAIN seq : seq[i] = x})
Has(seq, x)   == \E i \in DOMAIN seq : seq[i] = x
IsPrefix(p, q) ==
  /\ Len(p) <= Len(q)
  /\ \A i \in DOMAIN p : p[i] = q[i]

\* C1: constructing VelocityStokes or VelocityBP with a viscosity_mode that
\* is not one of the recognized modes is fatal: the constructor call ends in
\* an error before the functional A, the residual F or the Jacobian J is
\* built, so no solver object configured with an unrecognized mode exists
\* and none is ever solved.
C1_UnrecognizedViscosityModeIsFatal ==
  /\ (call.op \in InitOps /\ call.cfg.viscosity_mode \notin ViscosityModes)
        => /\ call.outcome # "ok"
           /\ ~Has(call.steps, "A")
           /\ ~Has(call.steps, "F")
           /\ ~Has(call.steps, "J")
  /\ (vel.class # "none" => vel.cfg.viscosity_mode \in ViscosityModes)
  /\ (call.op \in SolveOps => call.cfg.viscosity_mode \in ViscosityModes)

\* the lateral values each boundaries mode prescribes for u and v
LateralValues(boundaries) ==
  IF boundaries = "homogeneous" THEN <<"0.0", "0.0">>
  ELSE IF boundaries = "solution" THEN <<"model.u", "model.v">>
  ELSE IF boundaries = "user_defined"
       THEN <<"u_lat_boundary", "v_lat_boundary">>
  ELSE <<>>

\* C2: every momentum solve runs with exactly one lateral boundary mode in
\* force: the boundaries string is one of the three modes, and the
\* conditions handed to the solvers are one per velocity component, all on
\* lateral marker 4, with u and v carrying that mode's values.  A solve
\* with an unrecognized string, and hence with no lateral condition, never
\* happens.
C2_ExactlyOneLateralMode ==
  call.op \in SolveOps =>
    LET handed == IF call.op = "VelocityBP.solve"
                  THEN call.bcs \o <<call.bc_w>> ELSE call.bcs
        want   == LateralValues(call.cfg.boundaries)
    IN  /\ call.cfg.boundaries \in BoundaryModes
        /\ Len(handed) = 3
        /\ \A i \in DOMAIN handed : handed[i].marker = 4
        /\ \A i \in DOMAIN want :
             i <= Len(handed) /\ handed[i].value = want[i]

\* C5: a solve call that ends in a solver failure leaves the velocity
\* components, the pressure and the traction coefficient at the values they
\* had when the call began; in particular a failed vertical-velocity solve
\* in VelocityBP.solve leaves model.u and model.v untouched.
C5_FailedSolveKeepsFields ==
  [][(call'.op \in SolveOps /\ call'.outcome # "ok")
       => /\ model'.u = model.u
          /\ model'.v = model.v
          /\ model'.w = model.w
          /\ model'.P = model.P
          /\ model'.beta = model.beta]_vars

\* C6: within one solve call the Newton solver is invoked exactly once; when
\* it fails the call ends with that error at once: no retry, no split, no
\* vertical-velocity solve, no traction recomputation, no pressure
\* computation, and the fields those steps write keep their values.
C6_NewtonFailurePropagates ==
  [][call'.op \in SolveOps
       => /\ Count(call'.steps, "newton") = 1
          /\ (~Has(call'.steps, "split")
                => /\ call'.outcome = "RuntimeError"
                   /\ call'.raised_by = "newton"
                   /\ call'.steps[Len(call'.steps)] = "newton"
                   /\ \A st \in {"wsolve", "beta", "pressure"} :
                        ~Has(call'.steps, st)
                   /\ model'.u = model.u /\ model'.v = model.v
                   /\ model'.w = model.w /\ model'.P = model.P
                   /\ model'.beta = model.beta)
          /\ (call'.raised_by = "newton" => ~Has(call'.steps, "split"))]_vars

\* a Newton failure inside VelocityBP.solve, raised on an iterate that
\* differs from the stored velocity components
C6_Witness ==
  /\ call.op = "VelocityBP.solve"
  /\ call.raised_by = "newton"
  /\ call.outcome = "RuntimeError"
  /\ model.U # model.u

\* C10: VelocityBP.solve performs its steps in a fixed order: the Newton
\* solve and the split into u and v; then the linear solve for w, which
\* reads the u and v of the first step; then the traction coefficient from
\* statistics exactly when init_beta_from_stats is set; and the pressure
\* last.  A call that fails has performed a prefix of that order.
C10_BPSolveOrder ==
  call.op = "VelocityBP.solve" =>
    LET stats == call.cfg.init_beta_from_stats
        full  == <<"newton", "split", "wsolve">>
                 \o (IF stats THEN <<"beta">> ELSE <<>>)
                 \o <<"pressure">>
    IN  /\ IsPrefix(call.steps, full)
        /\ Has(call.steps, "beta") => stats
        /\ call.outcome = "ok" =>
             /\ call.steps = full
             /\ model.u = model.U /\ model.v = model.U
             /\ model.w = model.U
             /\ model.P = HydrostaticP
             /\ stats => (model.beta.from = "stats" /\ model.beta.at = model.U)

\* a complete VelocityBP.solve with the statistical traction step enabled
\* and a new (nonzero) Newton solution
C10_Witness ==
  /\ call.op = "VelocityBP.solve"
  /\ call.outcome = "ok"
  /\ call.cfg.init_beta_from_stats
  /\ model.U # ZeroField
  /\ model.w = model.U
  /\ Has(call.steps, "beta")

(* ====================================================================== *)
(* Properties of the adjoint solver (checked under SpecAdj)               *)
(* ====================================================================== *)

\* C3: constructing AdjointVelocity with an objective_function outside the
\* four recognized ones is fatal: the constructor call ends in an error
\* before the objective derivative and the adjoint form are built; when the
\* objective chain itself is reached the choices are printed and the
\* process exits.  No adjoint object with such an objective exists and no
\* adjoint solve runs under one.
C3_UnknownObjectiveIsFatal ==
  /\ (acall.op = "AdjointVelocity.__init__"
        /\ acall.cfg.objective_function \notin ObjectiveFunctions)
        => /\ acall.outcome # "ok"
           /\ ~Has(acall.steps, "I")
           /\ ~Has(acall.steps, "dI")
           /\ ~Has(acall.steps, "J")
           /\ (acall.raised_by = "objective"
                 => /\ acall.outcome = "SystemExit"
                    /\ acall.printed # {})
  /\ (adj.class # "none" => adj.cfg.objective_function \in ObjectiveFunctions)
  /\ (acall.op = "AdjointVelocity.solve"
        => acall.cfg.objective_function \in ObjectiveFunctions)

\* the objective chain is reached with an unknown selector and exits
C3_Witness ==
  /\ acall.op = "AdjointVelocity.__init__"
  /\ acall.cfg.objective_function \notin ObjectiveFunctions
  /\ acall.raised_by = "objective"
  /\ acall.outcome = "SystemExit"

EnthSolveOps == {"Enthalpy.solve", "EnthalpyDG.solve"}
Min(a, b) == IF a < b THEN a ELSE b

\* C7: the water content W lies in [0, 1] at every node at all times, in
\* particular after any number of Enthalpy.solve or EnthalpyDG.solve calls
\* (W is held as 100*L*W, so 1 is 100*L).
C7_WaterContentInUnitInterval ==
  \A n \in Nodes : 0 <= thermo.W[n] /\ thermo.W[n] <= 100 * L

C11_StatBetaNonNegative ==
  (vel.class = "BP" /\ vel.cfg.init_beta_from_stats
     /\ call.op \in {"VelocityBP.__init__", "VelocityBP.solve"})
    => /\ model.beta.from = "stats"
       /\ model.beta.val >= 0
       /\ model.beta.val = IF BetaExpr(model.beta.at) < 0
                           THEN 0 ELSE BetaExpr(model.beta.at)

\* a completed solve at which the statistical expression is negative and
\* the stored beta is zero
C11_Witness ==
  /\ call.op = "VelocityBP.solve"
  /\ call.outcome = "ok"
  /\ call.cfg.init_beta_from_stats
  /\ model.beta.at = model.U
  /\ BetaExpr(model.beta.at) < 0
  /\ model.beta.val = 0


\* C12: AdjointVelocity.solve performs exactly one linear solve per call,
\* into the field Lam, and nothing else: no control field, no other field of
\* the model (the forward unknown U among them) and no part of the adjoint
\* object changes, and a failed solve leaves Lam as it was.
C12_AdjointSolveFrame ==
  [][acall'.op = "AdjointVelocity.solve"
       => /\ acall'.steps = <<"linear">>
          /\ model' = model
          /\ adj' = adj
          /\ (acall'.outcome # "ok" => Lam' = Lam)]_vars

\* a completed adjoint solve that left a new multiplier field
C12_Witness ==
  /\ acall.op = "AdjointVelocity.solve"
  /\ acall.outcome = "ok"
  /\ Lam # ZeroField
  /\ model = InitModel


\* C13: with boundary mode 'solution' a momentum solve() called directly
\* after a converged solve() of the same object is a fixed point: it
\* leaves U, u, v and w as the first call left them, for VelocityStokes
\* and for VelocityBP.
C13_SolveIdempotent ==
  [][(call.op \in SolveOps /\ call.outcome = "ok"
        /\ call.cfg.boundaries = "solution" /\ call'.op = call.op)
       => /\ model'.U = model.U
          /\ model'.u = model.u /\ model'.v = model.v
          /\ model'.w = model.w]_vars


\* C14: named fields are written in place and never replaced: across any
\* sequence of constructions and solves every field name of the model still
\* denotes the object it denoted before, so no name was ever bound to a new
\* object.
C14_FieldsKeepTheirStorage ==
  model.rebound = {} /\ thermo.rebound = {}


(* ====================================================================== *)
(* Properties of modules run in sequence (checked under SpecSeq)          *)
(* ====================================================================== *)

\* C15: forms built at instantiation see later field updates: when an
\* enthalpy object exists and a momentum solve updates the velocity
\* afterwards, the next solve of the enthalpy object reads the velocity the
\* model holds at that time, not the one it held at instantiation.
C15_FormsSeeUpdatedVelocity ==
  [][(ecall'.op \in EnthSolveOps /\ ecall' # ecall)
       => ecall'.velocity = [u |-> model.u, v |-> model.v, w |-> model.w]]_vars


(* ====================================================================== *)
(* Properties of the boundary integrals (checked under SpecMesh)          *)
(* ====================================================================== *)

BedMarkers == {GndMarker, FltMarker}

\* the terms that belong to the floating bed; every other bed term belongs
\* to the grounded bed or to the whole bed
FloatingTerms == {"Sl_shf"}

FullyGrounded ==
  /\ \A f \in Facets : ff[f] # FltMarker
  /\ \E f \in Facets : ff[f] = GndMarker

\* C16: the grounded and floating domains partition the bed (every bed
\* facet is in exactly one of dGnd and dFlt, and dBed counts exactly the
\* facets of both once); in every module's form each bed term is counted
\* at most once per facet; on a bed tagged entirely grounded every
\* floating-domain term contributes nothing and every other bed term
\* contributes once on every bed facet.
C16_BedPartition ==
  LET m == BedMeasures(ff)
  IN  /\ \A f \in Facets :
           /\ m.dGnd[f] + m.dFlt[f] = (IF ff[f] \in BedMarkers THEN 1 ELSE 0)
           /\ m.dBed[f] = m.dGnd[f] + m.dFlt[f]
           /\ m.dBed[f] <= 1
      /\ bedint.form # "none" =>
           /\ \A t \in DOMAIN bedint.count : \A f \in Facets :
                /\ bedint.count[t][f] <= 1
                /\ ff[f] \notin BedMarkers => bedint.count[t][f] = 0
           /\ FullyGrounded =>
                \A t \in DOMAIN bedint.count : \A f \in Facets :
                  bedint.count[t][f] =
                    (IF t \notin FloatingTerms /\ ff[f] = GndMarker
                     THEN 1 ELSE 0)

\* a bed tagged entirely grounded on which VelocityBP's functional, with its
\* floating sliding term, has been assembled
C16_Witness ==
  /\ FullyGrounded
  /\ \A f \in Facets : ff[f] = GndMarker
  /\ bedint.form = "VelocityBP"
  /\ \A f \in Facets :
       bedint.count["Sl_shf"][f] = 0 /\ bedint.count["Sl_gnd"][f] = 1


(* ====================================================================== *)
(* Properties of FreeSurface (checked under SpecSurf)                     *)
(* ====================================================================== *)

\* C17: with no accumulation (smb zero) and u, v, w zero everywhere,
\* FreeSurface.solve() leaves dSdt zero at every node, whatever the options
\* lump_mass_matrix, static_boundary_conditions and use_shock_capturing,
\* the slope of the surface and the previous dSdt.
C17_NoForcingNoSurfaceChange ==
  (/\ fscall.op = "FreeSurface.solve"
   /\ surf.smb = ZeroArray
   /\ model.u = ZeroField /\ model.v = ZeroField /\ model.w = ZeroField)
    => surf.dSdt = ZeroArray /\ surf.dSdt_int = ZeroArray

\* an unforced solve on a sloping surface with every option on, which
\* replaced a non-zero dSdt
C17_Witness ==
  /\ fscall.op = "FreeSurface.solve"
  /\ surf.smb = ZeroArray
  /\ model.u = ZeroField /\ model.v = ZeroField /\ model.w = ZeroField
  /\ fsconfig.lump_mass_matrix /\ fsconfig.static_boundary_conditions
  /\ fsconfig.use_shock_capturing
  /\ surf.Sx = 1
  /\ fscall.before # ZeroArray
  /\ surf.dSdt = ZeroArray


\* C18: the objective of a constructed AdjointVelocity contains one
\* regularization term for each control field c1..ck (the term of ci scaled
\* by 0.5*ai), and the gradient form J[i] of every control field contains the
\* derivative of that field's own term.
C18_OneRegularizationPerControl ==
  (acall.op = "AdjointVelocity.__init__" /\ acall.outcome = "ok") =>
    /\ adj.R = {[kind |-> adj.cfg.regularization_type, control |-> i] :
                 i \in 1..adj.cfg.ncontrol}
    /\ \A i \in 1..adj.cfg.ncontrol :
         \E r \in adj.J[i].R : r.control = adj.J[i].wrt


\* the functional of the forward momentum balance an approximation selects;
\* VelocityStokes' sliding term Sl is read as the grounded sliding term
ForwardFunctional(approximation, pressure_bc) ==
  IF approximation = "fo" THEN BPFunctional(pressure_bc)
  ELSE {IF t[1] = "Sl" THEN <<"Sl_gnd", t[2]>> ELSE t :
          t \in StokesFunctional(pressure_bc)}

\* C19: the functional a constructed AdjointVelocity differentiates has
\* exactly the terms and integration domains of the forward functional its
\* approximation selects (VelocityBP's A for 'fo', VelocityStokes' A for
\* 'stokes'), the lateral pressure term included under the same condition.
C19_AdjointFunctionalIsForward ==
  (acall.op = "AdjointVelocity.__init__" /\ acall.outcome = "ok") =>
    adj.A = ForwardFunctional(adj.cfg.approximation, adj.cfg.pressure_bc)


(* ====================================================================== *)
(* Further properties of the momentum balance (checked under SpecVel)     *)
(* ====================================================================== *)

\* C20: constructing VelocityStokes with any recognized viscosity mode
\* completes and yields the functional A with its residual F and Jacobian
\* J; every term name used in the sum is defined before it is used (no
\* NameError leaves the constructor).
C20_StokesConstructionCompletes ==
  (/\ call.op = "VelocityStokes.__init__"
   /\ call.cfg.viscosity_mode \in ViscosityModes) =>
    /\ call.outcome = "ok"
    /\ model.A = StokesFunctional(call.cfg.pressure_bc)
    /\ vel.class = "Stokes" /\ vel.forms


(* ====================================================================== *)
(* Further properties of the enthalpy solvers (checked under SpecEnth)    *)
(* ====================================================================== *)

\* the Dirichlet conditions as the claim lists them: the surface enthalpy on
\* the surface; with a mask, the pressure-melting enthalpy ci*T0 (H_float)
\* on the floating-ice bottom and on the floating-ice top; with lateral
\* boundaries, one lateral condition
ClaimedEnthalpyBCs(c) ==
  {EnthalpyBC("H_surface", SrfMarker)}
    \cup (IF c.mask
          THEN {EnthalpyBC("H_float", FltMarker), EnthalpyBC("H_float", ShfMarker)}
          ELSE {})
    \cup (IF c.lateral_boundaries # "None"
          THEN {EnthalpyBC(c.lateral_boundaries, SdeMarker)}
          ELSE {})

\* C21: the Dirichlet set of both enthalpy variants (built by
\* Enthalpy.__init__, and by every EnthalpyDG.solve) is the surface condition
\* with the surface enthalpy; if and only if a mask exists, the floating-ice
\* bottom and the floating-ice top at the pressure-melting enthalpy; if and
\* only if lateral_boundaries is not None, one lateral condition; no other.
C21_EnthalpyDirichletSet ==
  (\/ enth.class = "Enthalpy"
   \/ enth.class = "EnthalpyDG" /\ ecall.op = "EnthalpyDG.solve") =>
    /\ {enth.bc_H[i] : i \in DOMAIN enth.bc_H} = ClaimedEnthalpyBCs(econfig)
    /\ Len(enth.bc_H) = Cardinality(ClaimedEnthalpyBCs(econfig))


(* ====================================================================== *)
(* Properties of the rheology closure (checked under SpecVel)             *)
(* ====================================================================== *)

\* C22: in the temperature-dependent rheology modes (full, E_control) the
\* water content that enters the hardness formula is the rheology-capped
\* W_r, in VelocityStokes as well as in VelocityBP; the uncapped W is never
\* read by a rheology closure.
C22_HardnessReadsCappedWater ==
  (call.op \in InitOps /\ call.cfg.viscosity_mode \in TemperatureModes)
    => call.closure.water = "W_r"


\* C23: in FreeSurface.solve() the mesh-velocity projection leaves
\* model.dSdt equal to the value the mass/stiffness (kinematic) update of the
\* same call produced, at every node.
C23_ProjectionKeepsRate ==
  fscall.op = "FreeSurface.solve" =>
    /\ surf.dSdt = fscall.kinematic.dSdt
    /\ surf.dSdt_int = fscall.kinematic.dSdt_int

\* C27: with static_boundary_conditions enabled, the rate the mass/stiffness
\* update of FreeSurface.solve() computes is zero at every lateral-boundary
\* node, on the lumped and the un-lumped path, with and without the
\* shock-capturing term.
C27_StaticBoundaryPinsRate ==
  (fscall.op = "FreeSurface.solve" /\ fsconfig.static_boundary_conditions)
    => \A i \in LateralNodes : fscall.kinematic.dSdt[i] = 0


(* ====================================================================== *)
(* Properties of the statistical basal traction (checked under SpecVel)   *)
(* ====================================================================== *)

\* the terms a polynomial over the covariates X has: one per covariate and
\* one per unordered pair of distinct covariates
ExpectedTerms(X) ==
  {<<X[i]>> : i \in DOMAIN X}
    \cup {<<X[i], X[j]>> : <<i, j>> \in {p \in (DOMAIN X) \X (DOMAIN X) : p[1] < p[2]}}

\* every term is summed with a coefficient and every coefficient is used:
\* the terms are exactly the expected ones, each once, and with the constant
\* they are as many as the literal coefficients
PolynomialComplete(p) ==
  /\ {p.terms[i] : i \in DOMAIN p.terms} = ExpectedTerms(p.covariates)
  /\ Len(p.terms) = Cardinality(ExpectedTerms(p.covariates))
  /\ 1 + Len(p.terms) = p.ncoef
  /\ p.nused = Len(p.terms)

\* C26 as stated: the polynomial of a VelocityBP built with
\* init_beta_from_stats is evaluated over all the listed covariates, the
\* geothermal flux q_geo included (so that beta can depend on q_geo), and no
\* coefficient and no term is left unused.
C26_Original ==
  (vel.class = "BP" /\ vel.cfg.init_beta_from_stats) =>
    /\ \E i \in DOMAIN vel.beta_f.covariates : vel.beta_f.covariates[i] = "q_geo"
    /\ PolynomialComplete(vel.beta_f)

\* C26 as amended: the polynomial is evaluated over the eleven covariates of
\* the list X, which does not contain the geothermal flux: no term of the
\* polynomial reads q_geo, so the initial beta does not depend on it; the
\* constant, the terms of the covariates and those of their unordered pairs
\* are as many as the literal coefficients, and none is left unused.
C26_PolynomialOverListedCovariates ==
  (vel.class = "BP" /\ vel.cfg.init_beta_from_stats) =>
    /\ \A i \in DOMAIN vel.beta_f.terms : \A k \in DOMAIN vel.beta_f.terms[i] :
         vel.beta_f.terms[i][k] # "q_geo"
    /\ PolynomialComplete(vel.beta_f)

C26_Witness ==
  /\ call.op = "VelocityBP.__init__" /\ call.outcome = "ok"
  /\ vel.class = "BP" /\ vel.cfg.init_beta_from_stats
  /\ Len(vel.beta_f.terms) = 66
  /\ model.beta.from = "stats"


(* ====================================================================== *)
(* Properties of the flow-law exponent (checked under SpecBuild)          *)
(* ====================================================================== *)

EnthInitOps == {"Enthalpy.__init__", "EnthalpyDG.__init__"}

\* C29: the flow-law exponent is consistent between the momentum and the
\* energy forms: when the momentum object is built in 'linear' mode (it uses
\* n = 1), an Enthalpy or EnthalpyDG built afterwards uses n = 1 in its
\* strain-heating term.
C29_ExponentConsistent ==
  [][(/\ ecall'.op \in EnthInitOps /\ ecall' # ecall
      /\ vel.class # "none" /\ vel.cfg.viscosity_mode = "linear"
      /\ vel.closure.n = 1)
       => enth'.n = vel.closure.n]_vars


(* ====================================================================== *)
(* Properties of the boundary-condition lists (checked under SpecSolve)   *)
(* ====================================================================== *)

HasAllNaNLine(A) ==
  \/ \E i \in 1..A.shape[1] : AllNaNRow(A, i)
  \/ \E j \in 1..A.shape[2] : AllNaNColumn(A, j)

\* C24: after a DataInput is constructed from equally shaped raw fields, no
\* field kept in self.data has a row or a column that is entirely NaN, and
\* the same rows and columns were removed from every field and from self.x
\* and self.y: every field has len(self.y) rows and len(self.x) columns.
C24_NoAllNaNLineLeft ==
  (dcall.op = "__init__" /\ dcall.outcome = "ok") =>
    \A f \in Fields :
      /\ dat.data[f].shape = <<Len(dat.y), Len(dat.x)>>
      /\ ~HasAllNaNLine(dat.data[f])

\* the entries the claim says set_data_min changes: those below boundary
AssignBelow(A, boundary, val) ==
  [A EXCEPT !.v = [p \in DOMAIN A.v |->
     IF A.v[p] # NaN /\ A.v[p] < boundary THEN val ELSE A.v[p]]]

\* the entries the claim says set_data_max changes: those above boundary
AssignAbove(A, boundary, val) ==
  [A EXCEPT !.v = [p \in DOMAIN A.v |->
     IF A.v[p] # NaN /\ A.v[p] > boundary THEN val ELSE A.v[p]]]

\* C25: set_data_min(fn, boundary, val) sets to val exactly the entries of
\* self.data[fn] below boundary and leaves every other entry (the entries
\* equal to boundary included) and every other field unchanged;
\* set_data_max changes exactly the entries above boundary.
C25_SetsExactlyBeyondBoundary ==
  [][/\ dcall'.op = "set_data_min" =>
          dat'.data = [dat.data EXCEPT ![dcall'.fn] =
                         AssignBelow(@, dcall'.boundary, dcall'.val)]
     /\ dcall'.op = "set_data_max" =>
          dat'.data = [dat.data EXCEPT ![dcall'.fn] =
                         AssignAbove(@, dcall'.boundary, dcall'.val)]]_vars

\* C30: shape invariant of DataInput: after construction and after any
\* sequence of reduce_size_to_box, interpolate_from_di, set_data_min,
\* set_data_max and set_data_val calls, every array in self.data has shape
\* (ny, nx), len(x) = nx, len(y) = ny, and x_min, x_max, y_min, y_max are
\* the minimum and maximum of x and y.
C30_ShapeInvariant ==
  dat # NoData =>
    /\ \A f \in Fields : dat.data[f].shape = <<dat.ny, dat.nx>>
    /\ Len(dat.x) = dat.nx /\ Len(dat.y) = dat.ny
    /\ Len(dat.x) > 0 /\ Len(dat.y) > 0
    /\ dat.x_min = ArrayMin(dat.x) /\ dat.x_max = ArrayMax(dat.x)
    /\ dat.y_min = ArrayMin(dat.y) /\ dat.y_max = ArrayMax(dat.y)

====
